---------------------------- MODULE Spec2Model ----------------------------
(***************************************************************************)
(* A model of src/app.py: the POST /recommend pipeline (geocode, fan-out   *)
(* to the source adapters, dedup, distance filter, ranking, min-rating     *)
(* filter, seasonal annotation, weather/forecast/events) and of its pure   *)
(* helpers (merge_duplicate_places, calculate_score, rank_destinations,    *)
(* filter_by_distance, get_weather_forecast).                              *)
(*                                                                         *)
(* Representation.                                                         *)
(*  - A Python dict is a TLA+ function from key strings to values; a key   *)
(*    the dict lacks is a key outside DOMAIN.                              *)
(*  - A dynamically typed value (a rating that is 4.5 or "Unknown", a      *)
(*    max_distance that is a number, a text, a list ...) is a record       *)
(*    [t, n, s]: t its Python type, n its number, s its text.              *)
(*  - A text that the code parses is a sequence of one-character strings.  *)
(*  - The numbers of the data are fixed point: ratings in tenths,          *)
(*    coordinates in 1e-5 degree, distances in 1e-6 km, distance_km in     *)
(*    hundredths, sample temperatures in tenths of a degree.  What         *)
(*    float() returns and what is computed in floating point (the parsed   *)
(*    max_distance and min_rating, a score, avg_temp) is a float record,   *)
(*    see "Python floats".                                                 *)
(***************************************************************************)
EXTENDS Integers, Sequences, FiniteSets, TLC

VARIABLES
    pc,          \* position of the request in recommend(), or of a helper run
    body,        \* the JSON body of the request (a dict), or NoBody
    pref_list,   \* normalized preferences (line 531-535)
    pref_idx,    \* index of the next preference of the loop at line 544
    user_location,   \* the geocoder's answer, <<lat, lng>>, or NoLocation
    max_distance,    \* parsed max_distance (line 522-526): a float or None
    all_destinations,\* the list built at 543-571 and rewritten at 574-604
    weather,     \* weather slice of the response
    forecast,    \* weather_forecast slice of the response
    events,      \* events slice of the response
    response,    \* [status, error, keys]: the HTTP answer, once given
    calls,       \* the adapters called so far for this request
    fin,         \* input of the helper under test (helper specifications)
    fout         \* output of the helper under test

vars == <<pc, body, pref_list, pref_idx, user_location, max_distance,
          all_destinations, weather, forecast, events, response, calls,
          fin, fout>>

reqVars == <<body, pref_list, pref_idx, user_location, max_distance,
             all_destinations, weather, forecast, events, response, calls>>

-----------------------------------------------------------------------------
(* Bounds of the model *)

\* longest list of places handed to a helper
MaxPlaces == 3
\* longest series of forecast samples
MaxSamples == 3

-----------------------------------------------------------------------------
(* Python values *)

Num(n) == [t |-> "num", n |-> n, s |-> <<>>]
Str(s) == [t |-> "str", n |-> 0, s |-> s]
Bool(b) == [t |-> "bool", n |-> IF b THEN 1 ELSE 0, s |-> <<>>]
\* a list or an object of n elements
List(n) == [t |-> "list", n |-> n, s |-> <<>>]
Dict(n) == [t |-> "dict", n |-> n, s |-> <<>>]
None == [t |-> "none", n |-> 0, s |-> <<>>]

\* isinstance(v, (int, float)); bool is a subclass of int
IsNumber(v) == v.t \in {"num", "bool"}

\* Python truthiness: "if v", "not v"
Truthy(v) ==
    CASE v.t = "num" -> v.n # 0
      [] v.t = "bool" -> v.n # 0
      [] v.t = "float" -> v.k # "fin" \/ v.m # <<>>
      [] v.t = "str" -> Len(v.s) > 0
      [] v.t = "list" -> v.n > 0
      [] v.t = "dict" -> v.n > 0
      [] OTHER -> FALSE

\* dict.get(k, default)
Get(d, k, default) == IF k \in DOMAIN d THEN d[k] ELSE default

\* the result of an expression that may raise
Ok(v) == [exc |-> "", val |-> v]
Raise(e) == [exc |-> e, val |-> 0]

(* Texts *)
S_Unknown == <<"U", "n", "k", "n", "o", "w", "n">>
S_NA == <<"N", "/", "A">>
S_mins == <<" ", "m", "i", "n", "s">>
S_30mins == <<"3", "0">> \o S_mins

Digits == <<"0", "1", "2", "3", "4", "5", "6", "7", "8", "9">>
IsDigit(c) == \E i \in 1..10 : Digits[i] = c
DigitVal(c) == (CHOOSE i \in 1..10 : Digits[i] = c) - 1

\* the blanks int() and float() skip at both ends of a text: space, tab,
\* line feed, carriage return, form feed, and the characters 0b (vertical
\* tab), 85 (next line) and a0 (no-break space), written here as they are.
\* The characters of the model are those up to ff; the blanks above ff
\* (1680, 2000-200a, 2028, 2029, 202f, 205f, 3000) are outside it.
Blanks ==
    {" ", "\t", "\n", "\r", "\f",
     "",
     "",
     " "}
IsBlank(c) == c \in Blanks

\* the separators 1c, 1d, 1e and 1f, blanks to str.split() and str.strip()
\* and not to int() and float()
Separators ==
    {"",
     "",
     "",
     ""}

\* str.isspace() of a character
IsSpace(c) == c \in Blanks \cup Separators

\* the letters of the model that have a lower case, and their lower case
UpperCase ==
    <<"A", "B", "C", "D", "E", "F", "G", "H", "I", "J", "K", "L",
      "M", "N", "O", "P", "Q", "R", "S", "T", "U", "V", "W", "X",
      "Y", "Z", "À", "Á", "Â", "Ã", "Ä", "Å", "Æ", "Ç", "È", "É",
      "Ê", "Ë", "Ì", "Í", "Î", "Ï", "Ð", "Ñ", "Ò", "Ó", "Ô", "Õ",
      "Ö", "Ø", "Ù", "Ú", "Û", "Ü", "Ý", "Þ">>
LowerCase ==
    <<"a", "b", "c", "d", "e", "f", "g", "h", "i", "j", "k", "l",
      "m", "n", "o", "p", "q", "r", "s", "t", "u", "v", "w", "x",
      "y", "z", "à", "á", "â", "ã", "ä", "å", "æ", "ç", "è", "é",
      "ê", "ë", "ì", "í", "î", "ï", "ð", "ñ", "ò", "ó", "ô", "õ",
      "ö", "ø", "ù", "ú", "û", "ü", "ý", "þ">>

\* str.lower() of a text
Lower(s) ==
    [i \in 1..Len(s) |->
        IF \E j \in 1..Len(UpperCase) : UpperCase[j] = s[i]
        THEN LowerCase[CHOOSE j \in 1..Len(UpperCase) : UpperCase[j] = s[i]]
        ELSE s[i]]

\* a text held as a string: its characters, and the string of characters
Chars(text) == [i \in 1..Len(text) |-> SubSeq(text, i, i)]

RECURSIVE Text(_)
Text(s) == IF Len(s) = 0 THEN "" ELSE s[1] \o Text(SubSeq(s, 2, Len(s)))

\* text.lower() of a string
LowerText(text) == Text(Lower(Chars(text)))

\* part in text, of strings
Contains(text, part) ==
    \E i \in 1..(Len(text) - Len(part) + 1) :
        SubSeq(text, i, i + Len(part) - 1) = part

\* s from the first to the last of the positions kept
Between(s, kept) ==
    IF kept = {} THEN <<>>
    ELSE SubSeq(s, CHOOSE i \in kept : \A j \in kept : i <= j,
                CHOOSE i \in kept : \A j \in kept : j <= i)

\* str.strip() with no argument
StrStrip(s) == Between(s, {i \in 1..Len(s) : ~IsSpace(s[i])})

\* str(n) for n >= 0
RECURSIVE IntToStr(_)
IntToStr(n) ==
    IF n < 10 THEN <<Digits[n + 1]>>
    ELSE IntToStr(n \div 10) \o <<Digits[(n % 10) + 1]>>

\* f"{travel_time_seconds // 60} mins" (line 280)
FormatMins(travel_time_seconds) == IntToStr(travel_time_seconds \div 60) \o S_mins

\* the value of a run of digits
RECURSIVE DigitsVal(_)
DigitsVal(s) ==
    IF s = <<>> THEN 0
    ELSE 10 * DigitsVal(SubSeq(s, 1, Len(s) - 1)) + DigitVal(s[Len(s)])

AllDigits(s) == Len(s) > 0 /\ \A i \in 1..Len(s) : IsDigit(s[i])

\* s.split(): the whitespace-separated tokens of s
RECURSIVE Split(_)
Split(s) ==
    IF s = <<>> THEN <<>>
    ELSE IF IsSpace(s[1]) THEN Split(Tail(s))
    ELSE LET ends == {i \in 1..Len(s) : IsSpace(s[i])}
             stop == IF ends = {} THEN Len(s) + 1
                     ELSE CHOOSE i \in ends : \A j \in ends : i <= j
         IN  <<SubSeq(s, 1, stop - 1)>> \o Split(SubSeq(s, stop, Len(s)))

\* the text int() and float() read: the blanks they skip at both ends
\* removed
RECURSIVE StripLeft(_)
StripLeft(s) ==
    IF s # <<>> /\ IsBlank(s[1]) THEN StripLeft(Tail(s)) ELSE s

RECURSIVE StripRight(_)
StripRight(s) ==
    IF s # <<>> /\ IsBlank(s[Len(s)]) THEN StripRight(SubSeq(s, 1, Len(s) - 1))
    ELSE s

Strip(s) == StripRight(StripLeft(s))

\* digits with single underscores between them: the digit part of a
\* numeric literal that int() and float() accept
ValidDigitPart(p) ==
    /\ Len(p) > 0
    /\ IsDigit(p[1]) /\ IsDigit(p[Len(p)])
    /\ \A i \in 1..Len(p) : IsDigit(p[i]) \/ p[i] = "_"
    /\ \A i \in 1..(Len(p) - 1) : ~(p[i] = "_" /\ p[i + 1] = "_")

DigitsOf(p) == SelectSeq(p, IsDigit)

\* int(token): blanks around, an optional sign and a digit part, else
\* ValueError
ParseInt(tok) ==
    LET s == Strip(tok)
        signed == Len(s) > 0 /\ s[1] \in {"+", "-"}
        p == IF signed THEN Tail(s) ELSE s
    IN  IF ValidDigitPart(p)
        THEN Ok(IF signed /\ s[1] = "-" THEN 0 - DigitsVal(DigitsOf(p))
                ELSE DigitsVal(DigitsOf(p)))
        ELSE Raise("ValueError")

RECURSIVE Pow10(_)
Pow10(k) == IF k = 0 THEN 1 ELSE 10 * Pow10(k - 1)

-----------------------------------------------------------------------------
(* Natural numbers of any size: the digits in base 32768, the least        *)
(* significant first, with no leading zero digit; <<>> is 0.               *)

\* a without its leading zero digits
\* a up to the last of the positions used
UpTo(a, used) ==
    IF used = {} THEN <<>>
    ELSE SubSeq(a, 1, CHOOSE i \in used : \A j \in used : j <= i)

Trim(a) == UpTo(a, {i \in 1..Len(a) : a[i] # 0})

RECURSIVE BigOfInt(_)
BigOfInt(n) == IF n = 0 THEN <<>> ELSE <<n % 32768>> \o BigOfInt(n \div 32768)

DigitAt(a, i) == IF i >= 1 /\ i <= Len(a) THEN a[i] ELSE 0

Max(x, y) == IF x > y THEN x ELSE y
Min(x, y) == IF x < y THEN x ELSE y

\* the digits sum[i] <= 65534 brought below 32768: a carry enters digit i
\* from the nearest lower digit whose sum is not 32767, when that sum is more
AddCarry(sum) ==
    Trim([i \in 1..Len(sum) |->
            (sum[i] + (IF \E j \in 1..(i - 1) :
                             sum[j] > 32767 /\ \A l \in (j + 1)..(i - 1) : sum[l] = 32767
                       THEN 1 ELSE 0)) % 32768])

\* a + b
BigAdd(a, b) ==
    IF a = <<>> THEN Trim(b)
    ELSE IF b = <<>> THEN Trim(a)
    ELSE AddCarry(SubSeq([i \in 1..(Max(Len(a), Len(b)) + 1) |-> DigitAt(a, i) + DigitAt(b, i)],
                         1, Max(Len(a), Len(b)) + 1))

\* a - b, for a >= b: digit i lends one when the digits below it are less
\* in a than in b
BigSub(a, b) ==
    LET borrow == [i \in 1..Len(a) |->
                     IF \E j \in 1..(i - 1) :
                           a[j] < DigitAt(b, j)
                           /\ \A l \in (j + 1)..(i - 1) : a[l] = DigitAt(b, l)
                     THEN 1 ELSE 0]
    IN  IF b = <<>> THEN a
        ELSE Trim([i \in 1..Len(a) |-> (a[i] - DigitAt(b, i) - borrow[i] + 32768) % 32768])

BigLess(a, b) ==
    IF Len(a) # Len(b) THEN Len(a) < Len(b)
    ELSE \E i \in 1..Len(a) :
            a[i] < b[i] /\ \A j \in (i + 1)..Len(a) : a[j] = b[j]

RECURSIVE SumTo(_, _)
SumTo(s, n) == IF n = 0 THEN 0 ELSE s[n] + SumTo(s, n - 1)

\* the number of the digits e[k] < 2^30, each counted in its place
Carried(e) ==
    BigAdd(Trim([k \in 1..Len(e) |-> e[k] % 32768]),
           Trim(<<0>> \o [k \in 1..Len(e) |-> e[k] \div 32768]))

\* a * s, for 0 <= s < 32768
BigMulSmall(a, s) ==
    IF a = <<>> \/ s = 0 THEN <<>>
    ELSE Carried(SubSeq([i \in 1..Len(a) |-> a[i] * s], 1, Len(a)))





\* a * b for Len(a) <= Len(b): the products of the digits, summed place by
\* place
MulColumns(a, b) ==
    LET n == Len(a) + Len(b)
        low == [k \in 1..n |->
                  SumTo([i \in 1..Len(a) |-> (a[i] * DigitAt(b, k + 1 - i)) % 32768],
                        Len(a))]
        high == [k \in 1..n |->
                   SumTo([i \in 1..Len(a) |-> (a[i] * DigitAt(b, k + 1 - i)) \div 32768],
                         Len(a))]
    IN  BigAdd(Carried(SubSeq(low, 1, n)), Trim(<<0>> \o Carried(SubSeq(high, 1, n))))

\* a * b
BigMul(a, b) ==
    IF a = <<>> \/ b = <<>> THEN <<>>
    ELSE MulColumns(IF Len(a) <= Len(b) THEN a ELSE b, IF Len(a) <= Len(b) THEN b ELSE a)

RECURSIVE Pow2(_)
Pow2(k) == IF k = 0 THEN 1 ELSE 2 * Pow2(k - 1)

\* a * 2^k
BigShl(a, k) ==
    LET p == Pow2(k % 15)
    IN  IF a = <<>> THEN <<>>
        ELSE [i \in 1..(k \div 15) |-> 0]
             \o Trim([i \in 1..(Len(a) + 1) |->
                        ((DigitAt(a, i) * p) % 32768) + ((DigitAt(a, i - 1) * p) \div 32768)])

\* a \div 2^k
BigShr(a, k) ==
    LET p == Pow2(k % 15)
    IN  IF a = <<>> THEN <<>>
        ELSE Trim([i \in 1..(Len(a) - (k \div 15)) |->
                     (a[i + (k \div 15)] \div p)
                     + (DigitAt(a, i + (k \div 15) + 1) % p) * (32768 \div p)])

\* the number of binary digits
RECURSIVE IntBits(_)
IntBits(n) == IF n = 0 THEN 0 ELSE 1 + IntBits(n \div 2)

BigBits(a) == IF a = <<>> THEN 0 ELSE 15 * (Len(a) - 1) + IntBits(a[Len(a)])

\* 10^k
RECURSIVE BigPow10(_)
BigPow10(k) ==
    IF k <= 4 THEN BigOfInt(Pow10(k))
    ELSE LET half == BigPow10(k \div 2)
         IN  BigMulSmall(BigMul(half, half), IF k % 2 = 0 THEN 1 ELSE 10)

\* the number written by a run of digits
RECURSIVE BigOfDigits(_)
BigOfDigits(ds) ==
    IF Len(ds) <= 4 THEN BigOfInt(DigitsVal(ds))
    ELSE LET cut == Len(ds) \div 2
         IN  BigAdd(BigMul(BigOfDigits(SubSeq(ds, 1, cut)), BigPow10(Len(ds) - cut)),
                    BigOfDigits(SubSeq(ds, cut + 1, Len(ds))))

\* <<the digits 1..i of a \div d, a % d>> for 0 < d < 32768, r being the
\* remainder left by the digits above i
RECURSIVE DivSmall(_, _, _, _)
DivSmall(a, d, i, r) ==
    IF i = 0 THEN <<<<>>, r>>
    ELSE LET rest == DivSmall(a, d, i - 1, (r * 32768 + a[i]) % d)
         IN  <<Append(rest[1], (r * 32768 + a[i]) \div d), rest[2]>>

\* <<a \div 10^k, whether a remainder is left>>, four digits at a time
RECURSIVE DivPow10(_, _)
DivPow10(a, k) ==
    IF a = <<>> \/ k = 0 THEN <<a, FALSE>>
    ELSE LET step == IF k >= 4 THEN 4 ELSE k
             qr == DivSmall(a, Pow10(step), Len(a), 0)
             rest == DivPow10(Trim(qr[1]), k - step)
         IN  <<rest[1], rest[2] \/ qr[2] # 0>>

\* <<a \div d, a % d>> restricted to the binary digits lo..hi of the
\* quotient, for a < d * 2^(hi + 1): the upper half of the digits first, the
\* lower half from what the upper half leaves
RECURSIVE LongDiv(_, _, _, _)
LongDiv(a, d, hi, lo) ==
    IF a = <<>> THEN <<<<>>, <<>>>>
    ELSE IF hi = lo
    THEN LET di == BigShl(d, hi)
         IN  IF BigLess(a, di) THEN <<<<>>, a>> ELSE <<BigShl(<<1>>, hi), BigSub(a, di)>>
    ELSE LET mid == (hi + lo + 1) \div 2
             top == LongDiv(a, d, hi, mid)
         IN  IF top[2] = <<>> THEN top
             ELSE LET bot == LongDiv(top[2], d, mid - 1, lo)
                  IN  <<BigAdd(top[1], bot[1]), bot[2]>>

-----------------------------------------------------------------------------
(* Python floats: IEEE 754 doubles.  A float is [t |-> "float", k, neg, m, *)
(* x]: k is "fin", "nan", "inf" or "ninf"; a finite float is m * 2^x,      *)
(* negated when neg, with the natural number m held in base 32768 as       *)
(* above: m has 53 binary digits and -1074 <= x <= 971, or fewer digits    *)
(* and x = -1074; 0.0 is m = <<>>, x = 0 (-0.0 is not told from 0.0).      *)
(* Arithmetic rounds to the nearest double, ties to even.                  *)

Float(k, neg, m, x) == [t |-> "float", k |-> k, neg |-> neg, m |-> m, x |-> x]
NaN == Float("nan", FALSE, <<>>, 0)
Inf == Float("inf", FALSE, <<>>, 0)
NegInf == Float("ninf", FALSE, <<>>, 0)
Zero == Float("fin", FALSE, <<>>, 0)

\* the double m * 2^x of a rounded m
Pack(neg, m, x) ==
    IF m = <<>> THEN Zero
    ELSE IF x > 971 THEN (IF neg THEN NegInf ELSE Inf)
    ELSE Float("fin", neg, m, x)

\* the binary digit of a at 2^j
BitAt(a, j) == (DigitAt(a, j \div 15 + 1) \div Pow2(j % 15)) % 2

\* some binary digit of a below 2^j is 1
AnyBitBelow(a, j) ==
    \/ \E i \in 1..(j \div 15) : DigitAt(a, i) # 0
    \/ DigitAt(a, j \div 15 + 1) % Pow2(j % 15) # 0

\* m + 1 or m, the digits of q from 2^(j + 1) up: q rounded at 2^(j + 1) to
\* the nearest, a tie to the even one; inexact tells of a fraction below q
RoundedAt(q, m, inexact, j) ==
    IF /\ BitAt(q, j) = 1
       /\ \/ AnyBitBelow(q, j)
          \/ inexact
          \/ m # <<>> /\ m[1] % 2 = 1
    THEN BigAdd(m, <<1>>)
    ELSE m

\* the double m * 2^low of a rounded m, which the rounding may have carried
\* to 54 binary digits
Carry(neg, m, low) ==
    IF BigBits(m) = 54 THEN Pack(neg, BigShr(m, 1), low + 1) ELSE Pack(neg, m, low)

\* the double nearest to (q + f) * 2^x whose lowest binary digit is at
\* 2^low
RoundAt(neg, q, inexact, x, low) ==
    IF low <= x THEN Pack(neg, BigShl(q, x - low), low)
    ELSE Carry(neg, RoundedAt(q, BigShr(q, low - x), inexact, low - x - 1), low)

\* the double nearest to (q + f) * 2^x, for a natural number q and a
\* fraction 0 <= f < 1 that is not 0 just when inexact holds; q has at least
\* 54 binary digits when inexact holds
RoundToDouble(neg, q, inexact, x) ==
    RoundAt(neg, q, inexact, x, Max(x + BigBits(q) - 53, -1074))

\* n / 10^k for a short n and a small k: n * 2^sh divided four decimal
\* digits at a time
ShortQuotient(n, k, sh) == Append(DivPow10(BigShl(n, sh), k), 0 - sh)

\* <<q, inexact, x>> of a quotient and remainder qr taken after scaling by
\* 2^sh
Scaled(qr, sh) == <<qr[1], qr[2] # <<>>, 0 - sh>>

\* <<q, inexact, x>> of the digits and the remainder qr that DivSmall gives
\* after scaling by 2^sh
ShortQuotientBy(qr, sh) == <<Trim(qr[1]), qr[2] # 0, 0 - sh>>

\* n / d with n scaled by 2^sh (d by 2^-sh when sh < 0)
ScaledQuotient(n, d, sh) ==
    Scaled(LongDiv(IF sh > 0 THEN BigShl(n, sh) ELSE n,
                   IF sh < 0 THEN BigShl(d, 0 - sh) ELSE d, 56, 0), sh)

\* n / d for a d of one digit, n scaled by 2^sh and divided digit by digit
SmallQuotient(n, d, sh) == ShortQuotientBy(DivSmall(BigShl(n, sh), d, Len(BigShl(n, sh)), 0), sh)

\* <<q, inexact, x>> with n / d = (q + f) * 2^x for a fraction f that is
\* not 0 just when inexact, and q of 55 binary digits or more
LongQuotient(n, d) ==
    IF Len(d) = 1 THEN SmallQuotient(n, d[1], Max(55 + BigBits(d) - BigBits(n), 0))
    ELSE ScaledQuotient(n, d, 55 + BigBits(d) - BigBits(n))

\* <<q, inexact, x>> with n / 10^k = (q + f) * 2^x for a fraction f that is
\* not 0 just when inexact, and q of 54 binary digits or more
Quotient(n, k) ==
    IF k <= 40 /\ Len(n) <= 16
    THEN ShortQuotient(n, k, Max(54 + 4 * k - BigBits(n), 0))
    ELSE LongQuotient(n, BigPow10(k))

RoundQuotient(neg, q) == RoundToDouble(neg, q[1], q[2], q[3])

\* the double nearest to n * 10^e, for a natural number n; beyond the
\* exponents tested first the value is above every double or below half the
\* least one
DoubleOf(neg, n, e) ==
    IF n = <<>> THEN Zero
    ELSE IF e >= 0
    THEN IF BigBits(n) + 3 * e > 1025 THEN (IF neg THEN NegInf ELSE Inf)
         ELSE RoundToDouble(neg, BigMul(n, BigPow10(e)), FALSE, 0)
    ELSE IF BigBits(n) + 3 * e < -1076 THEN Zero
    ELSE RoundQuotient(neg, Quotient(n, 0 - e))

\* the float n * 10^e of an integer n
Fin(n, e) == DoubleOf(n < 0, BigOfInt(IF n < 0 THEN 0 - n ELSE n), e)

\* the float of a number held as n units of 1/unit, unit a power of ten
RECURSIVE Log10(_)
Log10(unit) == IF unit = 1 THEN 0 ELSE 1 + Log10(unit \div 10)

FromUnit(n, unit) == Fin(n, 0 - Log10(unit))

FloatNeg(a) ==
    CASE a.k = "fin" -> IF a.m = <<>> THEN a ELSE Float("fin", ~a.neg, a.m, a.x)
      [] a.k = "inf" -> NegInf
      [] a.k = "ninf" -> Inf
      [] OTHER -> NaN

\* |a| < |b| for finite a, b
MagLess(a, b) ==
    IF b.m = <<>> THEN FALSE
    ELSE IF a.m = <<>> THEN TRUE
    ELSE IF a.x # b.x THEN a.x < b.x
    ELSE BigLess(a.m, b.m)

\* a < b: false when either is nan
FloatLT(a, b) ==
    CASE a.k = "nan" \/ b.k = "nan" -> FALSE
      [] a.k = "inf" \/ b.k = "ninf" -> FALSE
      [] a.k = "ninf" \/ b.k = "inf" -> TRUE
      [] a.neg /\ ~b.neg -> TRUE
      [] ~a.neg /\ b.neg -> FALSE
      [] ~a.neg /\ ~b.neg -> MagLess(a, b)
      [] OTHER -> MagLess(b, a)

FloatEQ(a, b) == a.k # "nan" /\ a = b
FloatLE(a, b) == FloatLT(a, b) \/ FloatEQ(a, b)
FloatGT(a, b) == FloatLT(b, a)
FloatGE(a, b) == FloatLE(b, a)

\* am * 2^x + bm * 2^x, each negated as told
AddAligned(aneg, bneg, am, bm, x) ==
    RoundToDouble(IF aneg = bneg \/ ~BigLess(am, bm) THEN aneg ELSE bneg,
                  IF aneg = bneg THEN BigAdd(am, bm)
                  ELSE IF BigLess(am, bm) THEN BigSub(bm, am)
                  ELSE BigSub(am, bm),
                  FALSE, x)

\* a + b
FloatAdd(a, b) ==
    CASE a.k = "nan" \/ b.k = "nan" -> NaN
      [] a.k = "inf" -> IF b.k = "ninf" THEN NaN ELSE Inf
      [] a.k = "ninf" -> IF b.k = "inf" THEN NaN ELSE NegInf
      [] b.k # "fin" -> b
      [] a.m = <<>> -> b
      [] b.m = <<>> -> a
      [] OTHER -> AddAligned(a.neg, b.neg, BigShl(a.m, a.x - Min(a.x, b.x)),
                             BigShl(b.m, b.x - Min(a.x, b.x)), Min(a.x, b.x))

FloatSub(a, b) == FloatAdd(a, FloatNeg(b))

\* the number of zero digits below the lowest digit of m that is not zero
LowZeros(m) ==
    IF m = <<>> THEN 0
    ELSE (CHOOSE i \in 1..Len(m) : m[i] # 0 /\ \A j \in 1..(i - 1) : m[j] = 0) - 1

\* a * b
FloatMul(a, b) ==
    LET neg == (a.k = "ninf" \/ (a.k = "fin" /\ a.neg))
                 # (b.k = "ninf" \/ (b.k = "fin" /\ b.neg))
    IN  CASE a.k = "nan" \/ b.k = "nan" -> NaN
          [] a.k = "fin" /\ b.k = "fin" ->
                LET za == LowZeros(a.m)
                    zb == LowZeros(b.m)
                IN  RoundToDouble(neg, BigMul(SubSeq(a.m, za + 1, Len(a.m)),
                                              SubSeq(b.m, zb + 1, Len(b.m))),
                                  FALSE, a.x + b.x + 15 * (za + zb))
          [] (a.k = "fin" /\ a.m = <<>>) \/ (b.k = "fin" /\ b.m = <<>>) -> NaN
          [] OTHER -> IF neg THEN NegInf ELSE Inf

\* the double nearest to (q[1] + f) * 2^(q[3] + x)
RoundScaled(neg, q, x) == RoundToDouble(neg, q[1], q[2], q[3] + x)

\* a / b for a finite b that is not 0
FloatDiv(a, b) ==
    CASE a.k = "nan" -> NaN
      [] a.k # "fin" -> IF b.neg THEN FloatNeg(a) ELSE a
      [] a.m = <<>> -> Zero
      [] OTHER -> RoundScaled(a.neg # b.neg,
                              LongQuotient(a.m, SubSeq(b.m, LowZeros(b.m) + 1, Len(b.m))),
                              a.x - b.x - 15 * LowZeros(b.m))

\* the double nearest to k / 10, k being n / 2^j rounded to the nearest
\* whole number, to the even one of two equally near
RoundTenths(neg, n, j) == DoubleOf(neg, RoundedAt(n, BigShr(n, j), FALSE, j - 1), -1)

\* round(a, 1): the multiple of 0.1 nearest to the exact value of a, the
\* even multiple of two equally near, as a double; a whole number stays
Round1(a) ==
    IF a.k # "fin" \/ a.m = <<>> \/ a.x >= 0 THEN a
    ELSE RoundTenths(a.neg, BigMulSmall(a.m, 10), 0 - a.x)


RECURSIVE DropLeadingZeros(_)
DropLeadingZeros(ds) ==
    IF ds # <<>> /\ ds[1] = "0" THEN DropLeadingZeros(Tail(ds)) ELSE ds

\* the exponent of a literal, from its digits: beyond six digits every
\* exponent is out of the range of a double alike
ExponentVal(ds) ==
    LET sig == DropLeadingZeros(ds)
    IN  IF Len(sig) > 6 THEN 999999 ELSE DigitsVal(sig)

\* the place of the first c in s, Len(s) + 1 when s has none
Find(s, c) ==
    CHOOSE i \in 1..(Len(s) + 1) :
        (i = Len(s) + 1 \/ s[i] = c) /\ \A j \in 1..(i - 1) : s[j] # c

HasSign(s) == Len(s) > 0 /\ s[1] \in {"+", "-"}
Unsigned(s) == IF HasSign(s) THEN Tail(s) ELSE s

\* the exponent written after the "e": 0 when there is none
ExponentOf(expo) ==
    IF expo = <<>> THEN 0
    ELSE IF expo[1] = "-" THEN 0 - ExponentVal(DigitsOf(Unsigned(expo)))
    ELSE ExponentVal(DigitsOf(Unsigned(expo)))

\* the value of the literal ip "." fp "e" ex (digits only, ex signed)
LiteralVal(neg, ip, fp, ex) == DoubleOf(neg, BigOfDigits(ip \o fp), ex - Len(fp))

\* the literal of the digit parts ip and fp around the point and the
\* exponent text expo, which is absent when hasExp is false
ParseParts(neg, ip, fp, hasExp, expo) ==
    IF /\ ip # <<>> \/ fp # <<>>
       /\ ip = <<>> \/ ValidDigitPart(ip)
       /\ fp = <<>> \/ ValidDigitPart(fp)
       /\ ~hasExp \/ ValidDigitPart(Unsigned(expo))
    THEN Ok(LiteralVal(neg, DigitsOf(ip), DigitsOf(fp), ExponentOf(expo)))
    ELSE Raise("ValueError")

\* the literal of the mantissa text and the exponent text
ParseMantissa(neg, mant, hasExp, expo) ==
    ParseParts(neg, SubSeq(mant, 1, Find(mant, ".") - 1),
               SubSeq(mant, Find(mant, ".") + 1, Len(mant)), hasExp, expo)

\* the text after the sign, in lower case
ParseUnsigned(neg, s) ==
    IF s \in {<<"i", "n", "f">>, <<"i", "n", "f", "i", "n", "i", "t", "y">>}
    THEN Ok(IF neg THEN NegInf ELSE Inf)
    ELSE IF s = <<"n", "a", "n">> THEN Ok(NaN)
    ELSE ParseMantissa(neg, SubSeq(s, 1, Find(s, "e") - 1), Find(s, "e") <= Len(s),
                       SubSeq(s, Find(s, "e") + 1, Len(s)))

ParseStripped(s) == ParseUnsigned(HasSign(s) /\ s[1] = "-", Lower(Unsigned(s)))

\* float(text): blanks around, an optional sign, then "inf", "infinity" or
\* "nan" in any case, or a decimal literal: digit parts around an optional
\* point (one of them may be missing) and an optional exponent.
ParseFloat(text) == ParseStripped(Strip(text))

\* float(v); a number is held as v.n units of 1/unit, a bool is 0 or 1
ToFloat(v, unit) ==
    CASE v.t \in {"num", "bool"} -> Ok(FromUnit(v.n, IF v.t = "bool" THEN 1 ELSE unit))
      [] v.t = "float" -> Ok(v)
      [] v.t = "str" -> ParseFloat(v.s)
      [] OTHER -> Raise("TypeError")

\* a > b for ratings, a a number: comparing a number with a text, None or a
\* list raises
Greater(a, b) ==
    IF IsNumber(b) THEN Ok(FloatGT(ToFloat(a, 10).val, ToFloat(b, 10).val))
    ELSE Raise("TypeError")

\* round half to even of num / den, for den > 0 and num >= 0
RoundDiv(num, den) ==
    LET q == num \div den
        r == num % den
    IN  IF 2 * r > den \/ (2 * r = den /\ q % 2 = 1) THEN q + 1 ELSE q

-----------------------------------------------------------------------------
(* merge_duplicate_places *)

\* round(x, 4) of a coordinate given in 1e-5 degree, in 1e-4 degree.  The
\* nearest value; a coordinate exactly half way is decided in Python by its
\* binary expansion, and the coordinates of this model avoid that case.
Round4(x) == RoundDiv(x, 10)

\* (round(place.get("lat", 0), 4), round(place.get("lng", 0), 4))
PlaceKey(place) == <<Round4(Get(place, "lat", 0)), Round4(Get(place, "lng", 0))>>

\* index of key in the dict's keys, 0 when absent
KeyIndex(keys, key) ==
    IF \E i \in 1..Len(keys) : keys[i] = key
    THEN CHOOSE i \in 1..Len(keys) : keys[i] = key
    ELSE 0

\* the test of line 191; "and" does not evaluate the comparison when the
\* incoming rating is no number
MergeReplaces(place, kept) ==
    IF "rating" \in DOMAIN place /\ IsNumber(place["rating"])
    THEN Greater(place["rating"], Get(kept, "rating", Num(0)))
    ELSE Ok(FALSE)

RECURSIVE MergeLoop(_, _, _, _)

\* lines 190-192 for places[i], whose key is held at position at, test
\* being the outcome of line 191
MergeKept(places, i, keys, vals, at, test) ==
    IF test.exc # "" THEN Raise(test.exc)
    ELSE MergeLoop(places, i + 1, keys,
                   IF test.val THEN [vals EXCEPT ![at] = places[i]] ELSE vals)

\* lines 189-194 for places[i], at being the position of its key, 0 when
\* the key is new
MergeAt(places, i, keys, vals, at) ==
    IF at = 0
    THEN MergeLoop(places, i + 1, Append(keys, PlaceKey(places[i])),
                   Append(vals, places[i]))
    ELSE MergeKept(places, i, keys, vals, at, MergeReplaces(places[i], vals[at]))

\* the loop of lines 188-194 over places[i..], unique held as its keys and
\* its values in insertion order
MergeLoop(places, i, keys, vals) ==
    IF i > Len(places) THEN Ok(vals)
    ELSE MergeAt(places, i, keys, vals, KeyIndex(keys, PlaceKey(places[i])))

merge_duplicate_places(places) == MergeLoop(places, 1, <<>>, <<>>)

-----------------------------------------------------------------------------
(* calculate_score, rank_destinations *)

\* try: r, except: fallback
OrElse(r, fallback) == IF r.exc = "" THEN r.val ELSE fallback

\* lines 338-341
ScoreRating(place) ==
    OrElse(ToFloat(Get(place, "rating", Num(40)), 10), Fin(4, 0))

\* lines 344-347
ScoreReviews(place) ==
    OrElse(ToFloat(Get(place, "user_ratings", Get(place, "reviews", Num(0))), 1),
           Zero)

\* int(toks[0]) of the words of travel_str, IndexError when there is none
FirstInt(toks) == IF toks = <<>> THEN Raise("IndexError") ELSE ParseInt(toks[1])

\* lines 350-354: int(travel_str.split()[0]), 30 on ValueError or IndexError
ScoreTravel(place) ==
    OrElse(FirstInt(Split(Get(place, "travel_time", S_30mins))), 30)

\* place.get("category") in user_preferences
InPreferences(place, user_preferences) ==
    /\ "category" \in DOMAIN place
    /\ \E i \in 1..Len(user_preferences) : user_preferences[i] = place["category"]

\* line 357: (rating * 10) + (reviews * 0.01) - (travel_val * 0.5)
BaseScore(place) ==
    FloatSub(FloatAdd(FloatMul(ScoreRating(place), Fin(10, 0)),
                      FloatMul(ScoreReviews(place), Fin(1, -2))),
             FloatMul(Fin(ScoreTravel(place), 0), Fin(5, -1)))

\* lines 360-361: score += 1.0 when the record earns the bonus
WithBonus(score, bonus) == IF bonus THEN FloatAdd(score, Fin(1, 0)) ELSE score

\* calculate_score with the bonus given whenever preferences are supplied
calculate_score_any_category(place, user_preferences) ==
    WithBonus(BaseScore(place), Len(user_preferences) > 0)

\* the score: rating*10 + reviews*0.01 - travel_val*0.5 (+ 1.0)
calculate_score(place, user_preferences) ==
    WithBonus(BaseScore(place),
              Len(user_preferences) > 0 /\ InPreferences(place, user_preferences))

\* a comparison that also holds of equal keys
SortLessOrEqual(a, b) == FloatLE(a, b)

\* the one comparison list.sort makes of two keys: a < b
SortLess(a, b) == FloatLT(a, b)

Reverse(s) == [i \in 1..Len(s) |-> s[Len(s) + 1 - i]]

\* list.sort of fewer than 64 items (CPython listobject.c), on p, a list of
\* positions in the keys K: the first run is counted (count_run), reversed
\* when it descends, and the other items are inserted one by one by binary
\* search (binarysort).  With keys that are totally ordered this is the
\* stable ascending sort; with a nan among the keys it is what the code
\* returns.
RECURSIVE RunEnd(_, _, _, _)
RunEnd(K, p, n, descending) ==
    IF n >= Len(p) THEN n
    ELSE IF SortLess(K[p[n + 1]], K[p[n]]) = descending
         THEN RunEnd(K, p, n + 1, descending)
         ELSE n

CountRun(K, p) ==
    IF Len(p) < 2 THEN [n |-> Len(p), descending |-> FALSE]
    ELSE LET descending == SortLess(K[p[2]], K[p[1]])
         IN  [n |-> RunEnd(K, p, 2, descending), descending |-> descending]

\* number of items of p[l+1..r] that stay before pivot
RECURSIVE BinarySearch(_, _, _, _, _)
BinarySearch(K, p, pivot, l, r) ==
    IF l >= r THEN l
    ELSE LET m == l + (r - l) \div 2
         IN  IF SortLess(K[pivot], K[p[m + 1]])
             THEN BinarySearch(K, p, pivot, l, m)
             ELSE BinarySearch(K, p, pivot, m + 1, r)

RECURSIVE BinarySort(_, _, _)
BinarySort(K, p, start) ==
    IF start >= Len(p) THEN p
    ELSE LET pivot == p[start + 1]
             l == BinarySearch(K, p, pivot, 0, start)
         IN  BinarySort(K,
                        SubSeq(p, 1, l) \o <<pivot>> \o SubSeq(p, l + 1, start)
                            \o SubSeq(p, start + 2, Len(p)),
                        start + 1)

ListSort(K, p) ==
    LET run == CountRun(K, p)
    IN  BinarySort(K,
                   IF run.descending
                   THEN Reverse(SubSeq(p, 1, run.n)) \o SubSeq(p, run.n + 1, Len(p))
                   ELSE p,
                   run.n)

\* sorted(items, key=..., reverse=True): keys[i] is the key of items[i].
\* The list is reversed, sorted and reversed again, which keeps items of
\* equal keys in their order.
SortedDesc(keys, items) ==
    LET n == Len(items)
        p == Reverse(ListSort(keys, Reverse([i \in 1..n |-> i])))
    IN  [j \in 1..n |-> items[p[j]]]

\* lines 368-369: place["score"] = calculate_score(place, user_preferences)
WithScores(destinations, user_preferences) ==
    [i \in 1..Len(destinations) |->
        ("score" :> calculate_score(destinations[i], user_preferences))
        @@ destinations[i]]

\* line 370: sorted(destinations, key=lambda x: x["score"], reverse=True)
SortByScore(destinations) ==
    SortedDesc([i \in 1..Len(destinations) |-> destinations[i]["score"]],
               destinations)

\* lines 366-370
rank_destinations(destinations, user_preferences) ==
    SortByScore(WithScores(destinations, user_preferences))

\* the sort key of line 584, in tenths
RatingKey(x) ==
    IF "rating" \in DOMAIN x /\ IsNumber(x["rating"])
    THEN ToFloat(x["rating"], 10).val
    ELSE Zero

\* lines 582-586
SortByRating(destinations) ==
    SortedDesc([i \in 1..Len(destinations) |-> RatingKey(destinations[i])],
               destinations)

S_rating == <<"r", "a", "t", "i", "n", "g">>
S_score == <<"s", "c", "o", "r", "e">>

\* lines 581-589: the ranking step of recommend()
RankStep(destinations, sort_by, user_preferences) ==
    IF sort_by = Str(S_rating) THEN SortByRating(destinations)
    ELSE rank_destinations(destinations, user_preferences)

-----------------------------------------------------------------------------
(* haversine_distance, filter_by_distance *)

\* the coordinates of the model, in 1e-5 degree: the city, a point 4 m from
\* it (the same 4-decimal key), one 1.1 km north and one 5.6 km east
PointA == <<100000, 200000>>
PointB == <<100004, 200000>>
PointC == <<101000, 200000>>
PointD == <<100000, 205000>>
Points == {PointA, PointB, PointC, PointD}
Origins == {PointA, PointC}

\* haversine_distance(lat1, lon1, lat2, lon2) on the model's coordinates, in
\* 1e-6 km rounded up: the values lines 463-471 compute (R = 6371), so that
\* dist_km <= m holds exactly when the tabulated value is <= m for every m
\* that is a whole number of 1e-6 km
HaversineTable ==
    (<<PointA, PointA>> :> 0) @@ (<<PointA, PointB>> :> 4448) @@
    (<<PointA, PointC>> :> 1111950) @@ (<<PointA, PointD>> :> 5558900) @@
    (<<PointC, PointA>> :> 1111950) @@ (<<PointC, PointB>> :> 1107502) @@
    (<<PointC, PointC>> :> 0) @@ (<<PointC, PointD>> :> 5669013)

haversine_distance(lat1, lon1, lat2, lon2) ==
    HaversineTable[<<(<<lat1, lon1>>), (<<lat2, lon2>>)>>]

\* round(dist_km, 2), in hundredths of a km
Round2(dist) == RoundDiv(dist, 10000)

\* lines 482-485: the record has both coordinates
HasCoordinates(dest) == "lat" \in DOMAIN dest /\ "lng" \in DOMAIN dest

\* line 487: dest["distance_km"] = round(dist_km, 2)
WithDistance(dest, dist) == ("distance_km" :> Round2(dist)) @@ dest

\* line 488 with an exclusive threshold
WithinDistanceExclusive(dist, max_distance_km) ==
    FloatLT(FromUnit(dist, 1000000), max_distance_km)

\* line 488: dist_km <= max_distance_km, dist in 1e-6 km and the maximum a
\* float
WithinDistance(dist, max_distance_km) ==
    FloatLE(FromUnit(dist, 1000000), max_distance_km)

\* the loop of lines 481-489 over destinations[i..]
RECURSIVE FilterLoop(_, _, _, _)
FilterLoop(destinations, i, user_loc, max_distance_km) ==
    IF i > Len(destinations) THEN <<>>
    ELSE LET dest == destinations[i]
             rest == FilterLoop(destinations, i + 1, user_loc, max_distance_km)
         IN  IF ~HasCoordinates(dest) THEN rest
             ELSE LET dist == haversine_distance(user_loc[1], user_loc[2],
                                                 dest["lat"], dest["lng"])
                  IN  IF WithinDistance(dist, max_distance_km)
                      THEN <<WithDistance(dest, dist)>> \o rest
                      ELSE rest

\* user_location is the text "lat,lng" of line 67, split and parsed back at
\* line 479; repr and float are inverse on a float, so the pair stands for it
filter_by_distance(destinations, user_loc, max_distance_km) ==
    FilterLoop(destinations, 1, user_loc, max_distance_km)

-----------------------------------------------------------------------------
(* get_weather_forecast *)

\* dt_txt.split(" ")[0]: dt_txt is <<date, hour>>, the date a day number
\* (fixed-width ISO dates sort lexically as their day numbers do)
DateOf(entry) == entry.dt_txt[1]

\* the keys of daily_data
ForecastDates(list) == {DateOf(list[i]) : i \in 1..Len(list)}

\* sorted(daily_data.keys())
RECURSIVE SortedAsc(_)
SortedAsc(S) ==
    IF S = {} THEN <<>>
    ELSE LET m == CHOOSE x \in S : \A y \in S : x <= y
         IN  <<m>> \o SortedAsc(S \ {m})

\* daily_data[day]["temps"], daily_data[day]["descs"]: in sample order
DayIdx(list, day) == {i \in 1..Len(list) : DateOf(list[i]) = day}

\* entry["main"]["temp"], held in tenths of a degree
TempOf(entry) == FromUnit(entry.temp, 10)

\* sum(temps) of the day's samples among the first n: the temperatures
\* added one by one in sample order, from 0 (CPython 3.11; later versions
\* add floats with a compensation term)
RECURSIVE SumTemps(_, _, _)
SumTemps(list, day, n) ==
    IF n = 0 THEN Zero
    ELSE IF DateOf(list[n]) = day
    THEN FloatAdd(SumTemps(list, day, n - 1), TempOf(list[n]))
    ELSE SumTemps(list, day, n - 1)

\* round(sum(temps) / len(temps), 1) (lines 418, 423)
AvgTemp(list, day) ==
    Round1(FloatDiv(SumTemps(list, day, Len(list)),
                    FromUnit(Cardinality(DayIdx(list, day)), 1)))

\* descs.count(d)
DescCount(list, day, d) ==
    Cardinality({i \in DayIdx(list, day) : list[i].desc = d})

\* max(set(descs), key=descs.count): the first description of the highest
\* count in the set's iteration order, which the hash seed of the process
\* decides: any description of the highest count
MostCommonDescs(list, day) ==
    LET ds == {list[i].desc : i \in DayIdx(list, day)}
    IN  {d \in ds : \A e \in ds : DescCount(list, day, d) >= DescCount(list, day, e)}

\* the summaries of a day, each before one of the summaries of the days
\* that follow
DaySummaries(day, avg, descs, rests) ==
    {<<[date |-> day, avg_temp |-> avg, description |-> d]>> \o rest :
        d \in descs, rest \in rests}

\* the summaries lines 413-425 can build for the days of a list
RECURSIVE Summaries(_, _)
Summaries(list, daysSeq) ==
    IF daysSeq = <<>> THEN {<<>>}
    ELSE DaySummaries(Head(daysSeq), AvgTemp(list, Head(daysSeq)),
                      MostCommonDescs(list, Head(daysSeq)),
                      Summaries(list, Tail(daysSeq)))

\* lines 412-415 without the break at day_index >= days
FirstDaysUnlimited(list, days) == SortedAsc(ForecastDates(list))

\* lines 412-415: the first `days` of the sorted dates
FirstDays(list, days) ==
    LET sorted_days == SortedAsc(ForecastDates(list))
    IN  SubSeq(sorted_days, 1, IF Len(sorted_days) < days THEN Len(sorted_days)
                                ELSE days)

\* the results get_weather_forecast can return for an upstream answer
\* [kind, list]: "error" (the call or the parsing throws), "nolist" (no
\* "list" key), "ok"
get_weather_forecast(resp, days) ==
    IF resp.kind # "ok" THEN {<<>>}
    ELSE Summaries(resp.list, FirstDays(resp.list, days))

-----------------------------------------------------------------------------
(* The source adapters: what each returns for an upstream answer *)

\* get_coordinates_from_city: the answer is [kind]: "ok" (status OK with a
\* result), "not_ok" (another status), "throws"; the city of the model lies
\* at PointA
get_coordinates_from_city(answer) ==
    IF answer = "ok" THEN PointA ELSE <<>>

\* place["geometry"]["location"] can be read for lat and lng
HasLocation(place) ==
    /\ "geometry" \in DOMAIN place
    /\ "location" \in DOMAIN place["geometry"]
    /\ {"lat", "lng"} \subseteq DOMAIN place["geometry"]["location"]

\* lines 107-108: rating >= 4.0 of a rating that is a number
RatedEnough(place) ==
    FloatGE(ToFloat(Get(place, "rating", Num(0)), 10).val, Fin(4, 0))

\* a result on which lines 107-118 raise: a rating that is no number
\* (TypeError at line 108), or a result that passes the rating filter and
\* lacks its name or its location (KeyError)
PlaceRaises(place) ==
    \/ ~IsNumber(Get(place, "rating", Num(0)))
    \/ RatedEnough(place) /\ ~("name" \in DOMAIN place /\ HasLocation(place))

\* the place record with the searched place type (line 94) as its category
\* in place of the preference
PlaceRecordTypeCategory(place, preference) ==
    [name |-> place["name"],
     category |-> IF LowerText(preference) = "temple" THEN "hindu_temple"
                  ELSE "tourist_attraction",
     lat |-> place["geometry"]["location"]["lat"],
     lng |-> place["geometry"]["location"]["lng"],
     rating |-> Get(place, "rating", Num(0)),
     user_ratings |-> Get(place, "user_ratings_total", Num(0))]

\* one result of the place search as a place record (lines 109-116), for a
\* result that passes the rating filter
PlaceRecord(place, preference) ==
    [name |-> place["name"], category |-> preference,
     lat |-> place["geometry"]["location"]["lat"],
     lng |-> place["geometry"]["location"]["lng"],
     rating |-> Get(place, "rating", Num(0)),
     user_ratings |-> Get(place, "user_ratings_total", Num(0))]

\* lines 105-116: the records of the results that pass the rating filter
PlaceRecords(rated, preference) ==
    [i \in 1..Len(rated) |-> PlaceRecord(rated[i], preference)]

\* line 118
PlacesOrSentinel(places) ==
    IF Len(places) > 0 THEN places ELSE <<[name |-> "No places found"]>>

\* get_nearby_places for an upstream answer [kind, results]: any exception,
\* in the request or on a result, gives the error record alone
get_nearby_places(preference, answer) ==
    IF answer.kind = "error"
       \/ \E i \in 1..Len(answer.results) : PlaceRaises(answer.results[i])
    THEN <<[name |-> "Error fetching places"]>>
    ELSE PlacesOrSentinel(PlaceRecords(SelectSeq(answer.results, RatedEnough),
                                       preference))

\* get_trekking_spots_osm for an upstream answer [kind, elements]; an
\* element without lat or lon raises KeyError (lines 146-147)
get_trekking_spots_osm(answer) ==
    IF answer.kind = "error"
       \/ \E i \in 1..Len(answer.elements) :
             ~({"lat", "lon"} \subseteq DOMAIN answer.elements[i])
    THEN <<[name |-> "Error fetching treks"]>>
    ELSE LET treks == [i \in 1..Len(answer.elements) |->
                          [name |-> Get(Get(answer.elements[i], "tags", <<>>),
                                        "name", "Unnamed Trek"),
                           lat |-> answer.elements[i]["lat"],
                           lng |-> answer.elements[i]["lon"]]]
         IN  IF Len(treks) > 0 THEN treks
             ELSE <<[name |-> "No trekking places found"]>>

\* get_trek_details_google for an upstream answer [kind, candidates]
get_trek_details_google(name, answer) ==
    IF answer.kind = "ok" /\ Len(answer.candidates) > 0
    THEN LET place == answer.candidates[1]
         IN  [name |-> Get(place, "name", name),
              rating |-> Get(place, "rating", Str(S_Unknown)),
              reviews |-> Get(place, "user_ratings_total", Num(0)),
              address |-> Get(place, "formatted_address", "Unknown")]
    ELSE [rating |-> Str(S_Unknown), reviews |-> Num(0), address |-> "Unknown"]

\* get_travel_time for an upstream answer [kind, seconds]: "ok" (a row whose
\* element has status OK), "not_ok", "norows", "error"
get_travel_time(answer) ==
    IF answer.kind = "ok" THEN FormatMins(answer.seconds) ELSE S_Unknown

\* best_season_map.get(key, "All year round") (lines 292-307)
BestSeason(key) ==
    CASE key \in {"trekking", "historical", "adventure"} -> "October to March"
      [] key = "nature" -> "Monsoon & Winter (June to February)"
      [] key = "beach" -> "November to February"
      [] OTHER -> "All year round"

\* get_best_season_for_category: the season of category.lower()
get_best_season_for_category(category) == BestSeason(LowerText(category))

\* get_wikipedia_description for an upstream answer: "ok" (status 200 with an
\* extract), "not_found", "error"
get_wikipedia_description(answer) ==
    IF answer = "ok" THEN "extract" ELSE "No description available."

\* get_weather_info for an upstream answer: "ok", "incomplete", "error"
get_weather_info(answer) ==
    IF answer = "ok"
    THEN [description |-> "clear sky", temp |-> Num(215),
          icon_url |-> "http://openweathermap.org/img/wn/01d@2x.png"]
    ELSE [description |-> "Weather data not available", temp |-> Str(S_NA),
          icon_url |-> ""]

\* event["name"]["text"], event["start"]["local"] and event["url"] can be
\* read
EventComplete(event) ==
    /\ {"name", "start", "url"} \subseteq DOMAIN event
    /\ "text" \in DOMAIN event["name"]
    /\ "local" \in DOMAIN event["start"]

\* get_upcoming_events for an upstream answer [kind, events]: a record of
\* name, date and url for each of data["events"][:5] (lines 244-251); an
\* event that lacks one of them raises KeyError
get_upcoming_events(answer) ==
    LET first == SubSeq(answer.events, 1,
                        IF Len(answer.events) < 5 THEN Len(answer.events) ELSE 5)
    IN  IF answer.kind = "error"
           \/ \E i \in 1..Len(first) : ~EventComplete(first[i])
        THEN <<[name |-> "Error fetching events"]>>
        ELSE IF Len(first) > 0
        THEN [i \in 1..Len(first) |->
                 [name |-> first[i]["name"]["text"],
                  date |-> first[i]["start"]["local"],
                  url |-> first[i]["url"]]]
        ELSE <<[name |-> "No major events found"]>>

\* lines 446-447: "october to march" in dest.get("best_season", "").lower()
BestInOctoberToMarch(dest) ==
    Contains(LowerText(Get(dest, "best_season", "")), "october to march")

\* add_seasonal_disclaimer in calendar month m
add_seasonal_disclaimer(destinations, m) ==
    [i \in 1..Len(destinations) |->
        IF BestInOctoberToMarch(destinations[i]) /\ m \notin {10, 11, 12, 1, 2, 3}
        THEN ("seasonal_warning" :> "Note: Best visited between October and March.")
             @@ destinations[i]
        ELSE destinations[i]]

-----------------------------------------------------------------------------
(* recommend(): parsing of the body *)

\* p.strip().lower() of a preference text
StripLower(p) == Text(Lower(StrStrip(Chars(p))))

\* lines 532-535; preferences is [t, items]: a list of texts, or a text given
\* by its pieces between commas (preferences.split(","))
NormalizePreferences(preferences) ==
    LET kept == IF preferences.t = "list"
                THEN SelectSeq(preferences.items, LAMBDA p : p # "")
                ELSE SelectSeq(preferences.items, LAMBDA p : StripLower(p) # "")
    IN  [i \in 1..Len(kept) |-> StripLower(kept[i])]

\* "not preferences": an empty list, or the empty text
PreferencesFalsy(preferences) ==
    IF preferences.t = "list" THEN Len(preferences.items) = 0
    ELSE preferences.items = <<"">>

\* lines 523-526: try: r, except ValueError: None
ExceptValueError(r) ==
    IF r.exc = "" THEN Ok(r.val)
    ELSE IF r.exc = "ValueError" THEN Ok(None)
    ELSE Raise(r.exc)

\* line 524: float(max_distance) if max_distance else None; a number of the
\* body is in 1e-6 km
FloatIfTruthy(md) ==
    IF ~Truthy(md) THEN Ok(None) ELSE ExceptValueError(ToFloat(md, 1000000))

\* lines 522-526: float(max_distance) if max_distance else None, None on
\* ValueError
ParseMaxDistance(data) == FloatIfTruthy(Get(data, "max_distance", None))

\* lines 592-595; a number of the body is in tenths
ParseMinRating(data) ==
    OrElse(ToFloat(Get(data, "min_rating", Num(0)), 10), Zero)

\* lines 599-602
DestRating(dest) ==
    OrElse(ToFloat(Get(dest, "rating", Num(0)), 10), Zero)

\* lines 597-604 with > in place of >= at line 603
MinRatingFilterExclusive(destinations, min_rating) ==
    SelectSeq(destinations, LAMBDA dest : FloatGT(DestRating(dest), min_rating))

\* lines 597-604
MinRatingFilter(destinations, min_rating) ==
    SelectSeq(destinations, LAMBDA dest : FloatGE(DestRating(dest), min_rating))

-----------------------------------------------------------------------------
(* The helpers on their own: Init draws an input, the action applies the    *)
(* helper to it.                                                            *)

NoBody == [present |-> FALSE, data |-> <<>>]
NoLocation == <<>>
NoResponse == [status |-> 0, error |-> "", keys |-> {}]

\* no request is being served
RequestIdle ==
    /\ body = NoBody
    /\ pref_list = <<>>
    /\ pref_idx = 1
    /\ user_location = NoLocation
    /\ max_distance = None
    /\ all_destinations = <<>>
    /\ weather = <<>>
    /\ forecast = <<>>
    /\ events = <<>>
    /\ response = NoResponse
    /\ calls = {}

\* the i-th record of an input list is named after its position
NameOf == <<"p1", "p2", "p3", "p4", "p5">>

\* the sequences of length at most n over S
SeqsUpTo(S, n) == UNION {[1..k -> S] : k \in 0..n}

\* an optional value: <<>> when absent, <<x>> when present
Absent == <<>>
Opt(S) == {Absent} \cup {<<x>> : x \in S}

\* a dict from those of the given keys whose value is present
Present(keys, vals) ==
    LET ks == {i \in 1..Len(keys) : Len(vals[i]) = 1}
    IN  [k \in {keys[i] : i \in ks} |->
            vals[CHOOSE i \in ks : keys[i] = k][1]]


(* merge_duplicate_places *)

MergeRatings == Opt({Num(42), Num(46), Str(S_Unknown)})
MergeCoords == {Absent, <<PointA>>, <<PointB>>, <<PointC>>}

MergePlace(i, c, r) ==
    ("name" :> NameOf[i])
    @@ (IF c = Absent THEN <<>> ELSE ("lat" :> c[1][1]) @@ ("lng" :> c[1][2]))
    @@ (IF r = Absent THEN <<>> ELSE ("rating" :> r[1]))

MergeInputs ==
    {[i \in 1..Len(cs) |-> MergePlace(i, cs[i][1], cs[i][2])] :
        cs \in SeqsUpTo(MergeCoords \X MergeRatings, MaxPlaces)}

InitMerge ==
    /\ RequestIdle
    /\ pc = "ready"
    /\ fin \in MergeInputs
    /\ fout = Ok(<<>>)

RunMerge ==
    /\ pc = "ready"
    /\ fout' = merge_duplicate_places(fin)
    /\ pc' = "done"
    /\ UNCHANGED <<fin, reqVars>>

SpecMerge == InitMerge /\ [][RunMerge]_vars

Range(s) == {s[i] : i \in 1..Len(s)}

HasNumericRating(place) == "rating" \in DOMAIN place /\ place["rating"].t = "num"

\* the rule of the claim: the incoming record replaces the kept one exactly
\* when both ratings are numbers and the incoming one is strictly higher
RECURSIVE ClaimedMergeLoop(_, _, _, _)
ClaimedMergeLoop(places, i, keys, vals) ==
    IF i > Len(places) THEN vals
    ELSE LET place == places[i]
             at == KeyIndex(keys, PlaceKey(place))
         IN  IF at = 0
             THEN ClaimedMergeLoop(places, i + 1, Append(keys, PlaceKey(place)),
                                   Append(vals, place))
             ELSE IF /\ HasNumericRating(place)
                     /\ HasNumericRating(vals[at])
                     /\ place["rating"].n > vals[at]["rating"].n
             THEN ClaimedMergeLoop(places, i + 1, keys, [vals EXCEPT ![at] = place])
             ELSE ClaimedMergeLoop(places, i + 1, keys, vals)

\* C5: merge_duplicate_places never fails and keeps, for each rounded
\* coordinate key, the record of strictly higher rating when both the kept
\* and the incoming rating are numbers, and the first record otherwise
C5_MergeKeepsHigherElseFirst ==
    pc = "done" =>
        /\ fout.exc = ""
        /\ Range(fout.val) = Range(ClaimedMergeLoop(fin, 1, <<>>, <<>>))

(* calculate_score *)

ScoreMinutes == {0, 7, 15, 120}
ScoreTravelTimes ==
    Opt({S_Unknown, S_NA, <<>>} \cup {FormatMins(60 * m + 59) : m \in ScoreMinutes})
\* a rating as a text float() reads, after a vertical tab
S_45tab ==
    <<"",
      "4", ".", "5">>
ScoreRatings == Opt({Num(45), Num(38), Str(S_Unknown), Str(S_45tab)})
ScoreUserRatings == Opt({Num(100), Str(S_Unknown)})
ScoreReviewCounts == Opt({Num(250)})
ScoreCategories == Opt({"temple", "trekking"})
ScorePreferences == {<<>>, <<"temple">>, <<"beach", "trekking">>}

ScoreInputs ==
    {[place |-> Present(<<"rating", "user_ratings", "reviews", "travel_time",
                          "category">>, <<r, u, v, tt, c>>),
      user_preferences |-> prefs] :
        r \in ScoreRatings, u \in ScoreUserRatings, v \in ScoreReviewCounts,
        tt \in ScoreTravelTimes, c \in ScoreCategories, prefs \in ScorePreferences}

InitScore ==
    /\ RequestIdle
    /\ pc = "ready"
    /\ fin \in ScoreInputs
    /\ fout = 0

RunScore ==
    /\ pc = "ready"
    /\ fout' = calculate_score(fin.place, fin.user_preferences)
    /\ pc' = "done"
    /\ UNCHANGED <<fin, reqVars>>

SpecScore == InitScore /\ [][RunScore]_vars

\* the terms of the claim, read off the record: the rating in tenths (4.0
\* when missing or no number), the review count (0 when missing or no
\* number), the minutes N of a travel_time "<N> mins" (30 otherwise)
ClaimedRating(place) ==
    IF "rating" \notin DOMAIN place THEN 40
    ELSE IF place["rating"].t = "num" THEN place["rating"].n
    ELSE IF place["rating"].s = S_45tab THEN 45
    ELSE 40

ClaimedReviews(place) ==
    LET k == IF "user_ratings" \in DOMAIN place THEN "user_ratings" ELSE "reviews"
    IN  IF k \in DOMAIN place /\ place[k].t = "num" THEN place[k].n ELSE 0

ClaimedMinutes(place) ==
    IF /\ "travel_time" \in DOMAIN place
       /\ \E n \in 0..200 : place["travel_time"] = IntToStr(n) \o S_mins
    THEN CHOOSE n \in 0..200 : place["travel_time"] = IntToStr(n) \o S_mins
    ELSE 30

ClaimedBonus(place, prefs) ==
    IF "category" \in DOMAIN place /\ place["category"] \in Range(prefs)
    THEN 100 ELSE 0

\* the value the claim gives: the float expression of its terms
ClaimedBaseScore(place) ==
    FloatSub(FloatAdd(FloatMul(FromUnit(ClaimedRating(place), 10), Fin(10, 0)),
                      FloatMul(Fin(ClaimedReviews(place), 0), Fin(1, -2))),
             FloatMul(Fin(ClaimedMinutes(place), 0), Fin(5, -1)))

ClaimedScore(place, prefs) ==
    IF ClaimedBonus(place, prefs) = 100
    THEN FloatAdd(ClaimedBaseScore(place), Fin(1, 0))
    ELSE ClaimedBaseScore(place)

\* C6: the score is rating*10 + reviews*0.01 - travel_minutes*0.5, plus 1.0
\* exactly when the category is in the preference list, with the defaults
\* 4.0, 0 and 30 minutes
C6_ScoreFormula ==
    pc = "done" => fout = ClaimedScore(fin.place, fin.user_preferences)

\* a record with the default rating, 250 reviews, a travel time of 15
\* minutes and the bonus: 40.0 + 2.5 - 7.5 + 1.0
C6_Witness ==
    /\ pc = "done"
    /\ "travel_time" \in DOMAIN fin.place
    /\ fin.place["travel_time"] = FormatMins(959)
    /\ "rating" \in DOMAIN fin.place /\ fin.place["rating"] = Str(S_Unknown)
    /\ "user_ratings" \notin DOMAIN fin.place
    /\ "reviews" \in DOMAIN fin.place
    /\ "category" \in DOMAIN fin.place /\ fin.place["category"] = "trekking"
    /\ fin.user_preferences = <<"beach", "trekking">>
    /\ fout = Fin(36, 0)

(* the ranking step *)

\* the records of the model: the scores of a record rated 4.1 with 323
\* reviews and of one rated "Unknown" (4.0) with 423 reviews, equal as
\* decimal numbers, are the doubles 29.229999999999997 and
\* 29.230000000000004
RankRatings == {Num(41), Str(S_Unknown)}
RankReviews == {Num(323), Num(423)}
RankCategories == {"temple", "beach"}
RankPreferences == <<"temple">>

RankPlace(i, r, rv, c) ==
    ("name" :> NameOf[i]) @@ ("rating" :> r) @@ ("user_ratings" :> rv)
    @@ ("category" :> c)

RankInputs ==
    {[destinations |-> [i \in 1..Len(cs) |-> RankPlace(i, cs[i][1], cs[i][2], cs[i][3])],
      sort_by |-> sb] :
        cs \in SeqsUpTo(RankRatings \X RankReviews \X RankCategories, MaxPlaces),
        sb \in {Str(S_score), Str(S_rating)}}

InitRank ==
    /\ RequestIdle
    /\ pc = "ready"
    /\ fin \in RankInputs
    /\ fout = <<>>

RunRank ==
    /\ pc = "ready"
    /\ fout' = RankStep(fin.destinations, fin.sort_by, RankPreferences)
    /\ pc' = "done"
    /\ UNCHANGED <<fin, reqVars>>

SpecRank == InitRank /\ [][RunRank]_vars

\* position in the input of the record named as out
InputPos(out) == CHOOSE i \in 1..Len(NameOf) : NameOf[i] = out["name"]

\* the sort key the claim names, read off an input record
ClaimedSortKey(place, sort_by) ==
    IF sort_by = Str(S_rating)
    THEN (IF HasNumericRating(place) THEN FromUnit(place["rating"].n, 10) ELSE Zero)
    ELSE ClaimedScore(place, RankPreferences)

\* C7: the ranking step returns a permutation of its input in descending
\* order of the sort key (score, or rating with a non-number as 0), records
\* of equal key in their input order
C7_RankStableDescending ==
    pc = "done" =>
        LET n == Len(fin.destinations)
            keys == SubSeq([i \in 1..n |->
                              ClaimedSortKey(fin.destinations[i], fin.sort_by)], 1, n)
        IN  /\ Len(fout) = n
            /\ \A j \in 1..Len(fout) :
                  /\ InputPos(fout[j]) \in 1..n
                  /\ \A k \in DOMAIN fin.destinations[InputPos(fout[j])] :
                        fout[j][k] = fin.destinations[InputPos(fout[j])][k]
                  /\ DOMAIN fout[j] \ {"score"}
                        = DOMAIN fin.destinations[InputPos(fout[j])]
                  /\ fin.sort_by = Str(S_score) =>
                        fout[j]["score"] = keys[InputPos(fout[j])]
            /\ \A j, k \in 1..Len(fout) : j < k =>
                  LET kj == keys[InputPos(fout[j])]
                      kk == keys[InputPos(fout[k])]
                  IN  /\ fout[j]["name"] # fout[k]["name"]
                      /\ FloatGE(kj, kk)
                      /\ FloatEQ(kj, kk) => InputPos(fout[j]) < InputPos(fout[k])

\* three records sorted by rating: the last is the only one with a number
\* and moves to the front, the first two differ, have the key 0 and keep
\* their order
C7_Witness ==
    /\ pc = "done"
    /\ fin.sort_by = Str(S_rating)
    /\ Len(fout) = 3
    /\ fout[1]["name"] = "p3" /\ fout[2]["name"] = "p1" /\ fout[3]["name"] = "p2"
    /\ fin.destinations[1]["rating"] = Str(S_Unknown)
    /\ fin.destinations[2]["rating"] = Str(S_Unknown)
    /\ fin.destinations[3]["rating"] = Num(41)
    /\ fin.destinations[1]["user_ratings"] # fin.destinations[2]["user_ratings"]

(* filter_by_distance *)

FilterCoords ==
    {<<>>, ("lat" :> PointA[1]), ("lng" :> PointA[2])}
    \cup {("lat" :> p[1]) @@ ("lng" :> p[2]) : p \in Points}

\* maximum distances in 1e-6 km: 0, either side of 4.448 m, the distance of
\* the northern and of the eastern point, and 6 km
FilterMaxima == {0, 4447, 4448, 1111950, 5558900, 6000000}

FilterInputs ==
    {[destinations |-> [i \in 1..Len(cs) |-> ("name" :> NameOf[i]) @@ cs[i]],
      user_location |-> o, max_distance_km |-> m] :
        cs \in SeqsUpTo(FilterCoords, MaxPlaces), o \in Origins, m \in FilterMaxima}

InitFilter ==
    /\ RequestIdle
    /\ pc = "ready"
    /\ fin \in FilterInputs
    /\ fout = <<>>

RunFilter ==
    /\ pc = "ready"
    /\ fout' = filter_by_distance(fin.destinations, fin.user_location,
                                  FromUnit(fin.max_distance_km, 1000000))
    /\ pc' = "done"
    /\ UNCHANGED <<fin, reqVars>>

SpecFilter == InitFilter /\ [][RunFilter]_vars

\* great-circle distance of an input record from the origin, in 1e-6 km
ClaimedDistance(dest) ==
    HaversineTable[<<fin.user_location, (<<dest["lat"], dest["lng"]>>)>>]

\* positions of the input records the claim keeps
ClaimedKept ==
    {i \in 1..Len(fin.destinations) :
        /\ {"lat", "lng"} \subseteq DOMAIN fin.destinations[i]
        /\ ClaimedDistance(fin.destinations[i]) <= fin.max_distance_km}

\* the output is the kept input records, in input order, each with a
\* distance_km added
FilterSelects ==
    /\ Len(fout) = Cardinality(ClaimedKept)
    /\ \A j \in 1..Len(fout) :
          /\ InputPos(fout[j]) \in ClaimedKept
          /\ Cardinality({i \in ClaimedKept : i < InputPos(fout[j])}) = j - 1
          /\ DOMAIN fout[j] = DOMAIN fin.destinations[InputPos(fout[j])]
                              \cup {"distance_km"}
          /\ \A k \in DOMAIN fin.destinations[InputPos(fout[j])] :
                fout[j][k] = fin.destinations[InputPos(fout[j])][k]

Abs(x) == IF x < 0 THEN 0 - x ELSE x

\* C8 as stated: the output is exactly the records with both coordinates
\* within the maximum (inclusive), in input order, and distance_km is the
\* computed distance
C8_FilterDistanceExact ==
    pc = "done" =>
        /\ FilterSelects
        /\ \A j \in 1..Len(fout) :
              fout[j]["distance_km"] * 10000 = ClaimedDistance(fout[j])

\* C8 as amended: the same selection, and distance_km is the computed
\* distance rounded to two decimals (the nearest hundredth of a km)
C8_FilterDistanceRounded ==
    pc = "done" =>
        /\ FilterSelects
        /\ \A j \in 1..Len(fout) :
              2 * Abs(fout[j]["distance_km"] * 10000 - ClaimedDistance(fout[j]))
                <= 10000

\* a record without coordinates and one beyond the maximum are removed, one
\* at exactly the maximum is kept, with its distance rounded
C8_Witness ==
    /\ pc = "done"
    /\ Len(fin.destinations) = 3
    /\ DOMAIN fin.destinations[1] = {"name", "lat"}
    /\ "lat" \in DOMAIN fin.destinations[2] /\ "lng" \in DOMAIN fin.destinations[2]
    /\ ClaimedDistance(fin.destinations[2]) = fin.max_distance_km
    /\ fin.max_distance_km = 4448
    /\ "lat" \in DOMAIN fin.destinations[3] /\ "lng" \in DOMAIN fin.destinations[3]
    /\ ClaimedDistance(fin.destinations[3]) > fin.max_distance_km
    /\ Len(fout) = 1
    /\ fout[1]["name"] = "p2"
    /\ fout[1]["distance_km"] = 0

(* get_weather_forecast *)

\* the day count of the call at line 611
ForecastDays == 3

\* the temperature, in tenths of a degree, and the description of a sample:
\* 10 (a whole number), 10.1 and 10.2 degrees; the mean of two neighbours
\* lies half way between two multiples of 0.1.  The code handles the two
\* fields apart, so not every pair is drawn.
ForecastReadings ==
    {<<100, "clear sky">>, <<101, "light rain">>, <<102, "clear sky">>,
     <<102, "light rain">>}

ForecastSamples ==
    {[dt_txt |-> <<d, 12>>, temp |-> r[1], desc |-> r[2]] :
        d \in 1..3, r \in ForecastReadings}

ForecastInputs ==
    {[resp |-> r, days |-> n] :
        r \in {[kind |-> "error", list |-> <<>>], [kind |-> "nolist", list |-> <<>>]}
              \cup {[kind |-> "ok", list |-> l] :
                        l \in SeqsUpTo(ForecastSamples, MaxSamples)},
        n \in 1..ForecastDays}

InitForecast ==
    /\ RequestIdle
    /\ pc = "ready"
    /\ fin \in ForecastInputs
    /\ fout = <<>>

RunForecast ==
    /\ pc = "ready"
    /\ fout' \in get_weather_forecast(fin.resp, fin.days)
    /\ pc' = "done"
    /\ UNCHANGED <<fin, reqVars>>

SpecForecast == InitForecast /\ [][RunForecast]_vars

\* the samples of a date, their number and the sum of their temperatures
ClaimedDates == {fin.resp.list[i].dt_txt[1] : i \in 1..Len(fin.resp.list)}
ClaimedSamplesOf(d) == {i \in 1..Len(fin.resp.list) : fin.resp.list[i].dt_txt[1] = d}

RECURSIVE ClaimedSum(_, _)
ClaimedSum(d, i) ==
    IF i = 0 THEN 0
    ELSE ClaimedSum(d, i - 1)
         + (IF i \in ClaimedSamplesOf(d) THEN fin.resp.list[i].temp ELSE 0)

ClaimedCount(d, ds) ==
    Cardinality({i \in ClaimedSamplesOf(d) : fin.resp.list[i].desc = ds})

\* one entry per distinct date, the N smallest dates in ascending order,
\* each with a description that no other of its date outnumbers
ForecastGroups ==
    /\ Len(fout) = IF Cardinality(ClaimedDates) < fin.days
                   THEN Cardinality(ClaimedDates) ELSE fin.days
    /\ \A j \in 1..Len(fout) :
          /\ fout[j].date \in ClaimedDates
          /\ Cardinality({d \in ClaimedDates : d < fout[j].date}) = j - 1
          /\ ClaimedCount(fout[j].date, fout[j].description) >= 1
          /\ \A i \in ClaimedSamplesOf(fout[j].date) :
                ClaimedCount(fout[j].date, fout[j].description)
                  >= ClaimedCount(fout[j].date, fin.resp.list[i].desc)

\* the double nearest to total / (10 * count): the mean of count
\* temperatures that sum to total tenths
MeanDouble(total, count) ==
    RoundScaled(FALSE, LongQuotient(BigOfInt(total), BigOfInt(10 * count)), 0)

\* the whole numbers k with k / 10 nearest to total / (10 * count): two of
\* them when the mean lies half way
NearestTenths(total, count) ==
    {k \in ((total \div count) - 1)..((total \div count) + 1) :
        2 * Abs(k * count - total) <= count}

\* C10 as stated: ... and each entry's temperature is the mean of its
\* date's sample temperatures
C10_ForecastMeanExact ==
    (pc = "done" /\ fin.resp.kind = "ok") =>
        /\ ForecastGroups
        /\ \A j \in 1..Len(fout) :
              fout[j].avg_temp
                = MeanDouble(ClaimedSum(fout[j].date, Len(fin.resp.list)),
                             Cardinality(ClaimedSamplesOf(fout[j].date)))

\* C10 as amended: ... and each entry's temperature is that mean rounded to
\* one decimal: a multiple of 0.1 nearest to the mean, either of the two
\* when the mean lies half way between them
C10_ForecastMeanRounded ==
    (pc = "done" /\ fin.resp.kind = "ok") =>
        /\ ForecastGroups
        /\ \A j \in 1..Len(fout) :
              \E k \in NearestTenths(ClaimedSum(fout[j].date, Len(fin.resp.list)),
                                     Cardinality(ClaimedSamplesOf(fout[j].date))) :
                 fout[j].avg_temp = FromUnit(k, 10)

\* three samples on two dates and a day count of 1: one entry, for the
\* earlier date, which comes last in the series; its two samples of 10.1
\* and 10.2 degrees differ in description and their mean 10.15 lies half
\* way between 10.1 and 10.2: the entry says 10.1
C10_Witness ==
    /\ pc = "done"
    /\ fin.resp.kind = "ok"
    /\ fin.days = 1
    /\ Len(fin.resp.list) = 3
    /\ fin.resp.list[1].dt_txt[1] = 2
    /\ fin.resp.list[2].dt_txt[1] = 1 /\ fin.resp.list[3].dt_txt[1] = 1
    /\ fin.resp.list[2].temp = 101 /\ fin.resp.list[3].temp = 102
    /\ fin.resp.list[2].desc # fin.resp.list[3].desc
    /\ Len(fout) = 1
    /\ fout[1] = [date |-> 1, avg_temp |-> FromUnit(101, 10),
                  description |-> "light rain"]

-----------------------------------------------------------------------------
(* POST /recommend: the requests and the upstream answers of the model *)

S_Paris == <<"P", "a", "r", "i", "s">>
S_walking == <<"w", "a", "l", "k", "i", "n", "g">>
S_abc == <<"a", "b", "c">>

Cities == Opt({Str(S_Paris), Str(<<>>)})

PreferenceValues ==
    {[t |-> "str", items |-> <<"temple">>],
     [t |-> "str", items |-> <<" Trekking", "Temple ">>],
     [t |-> "list", items |-> <<"trekking">>],
     [t |-> "list", items |-> <<"temple", " ">>],
     [t |-> "str", items |-> <<"", " ">>],
     [t |-> "list", items |-> <<>>],
     [t |-> "str", items |-> <<"">>]}

TravelModes == Opt({Str(S_walking)})
SortBys == Opt({Str(S_rating)})
S_nan == <<"n", "a", "n">>

MinRatings ==
    Opt({Num(46), Str(<<"4", ".", "5">>), Str(S_abc), Str(S_nan), List(1)})
\* "1e1" with a space before and a vertical tab after
S_1e1padded ==
    <<" ", "1", "e", "1",
      "">>

MaxDistances ==
    Opt({Num(0), Str(<<"0">>), Num(2000000), Str(<<"5">>), Str(S_abc),
         Str(S_nan), Str(<<"-", "1">>), Str(S_1e1padded),
         List(1), List(0), Dict(1), Bool(TRUE), Bool(FALSE)})

BodyKeys == <<"city", "preferences", "travel_mode", "sort_by", "min_rating",
              "max_distance">>

\* a body that passes the checks of lines 515 and 528
BodyComplete(data) ==
    /\ Truthy(Get(data, "city", None))
    /\ "preferences" \in DOMAIN data
    /\ ~PreferencesFalsy(data["preferences"])

\* the bodies of the model: every combination of the fields for a body that
\* is refused at line 529; for a body that goes on, the travel mode is left
\* out and at most one of min_rating and max_distance is given
Bodies ==
    {NoBody} \cup
    {b \in {[present |-> TRUE, data |-> Present(BodyKeys, <<c, pf, tm, sb, mr, md>>)] :
                c \in Cities, pf \in Opt(PreferenceValues), tm \in TravelModes,
                sb \in SortBys, mr \in MinRatings, md \in MaxDistances} :
        BodyComplete(b.data) =>
            /\ "travel_mode" \notin DOMAIN b.data
            /\ ("min_rating" \notin DOMAIN b.data \/ "max_distance" \notin DOMAIN b.data)}

GeocodeAnswers == {"ok", "not_ok", "throws"}

RawShrine ==
    ("name" :> "Shrine")
    @@ ("geometry" :> [location |-> [lat |-> PointA[1], lng |-> PointA[2]]])
    @@ ("rating" :> Num(45)) @@ ("user_ratings_total" :> Num(100))
RawKiosk ==
    ("name" :> "Kiosk")
    @@ ("geometry" :> [location |-> [lat |-> PointC[1], lng |-> PointC[2]]])
    @@ ("rating" :> Num(35)) @@ ("user_ratings_total" :> Num(20))
RawFort ==
    ("name" :> "Fort")
    @@ ("geometry" :> [location |-> [lat |-> PointD[1], lng |-> PointD[2]]])
    @@ ("rating" :> Num(42))

\* a result whose rating is JSON null
RawRuin ==
    ("name" :> "Ruin")
    @@ ("geometry" :> [location |-> [lat |-> PointB[1], lng |-> PointB[2]]])
    @@ ("rating" :> None)

\* two results whose base scores, less than a minute away, are one rounding
\* step apart: 63.129999999999995 and 63.13
RawHall ==
    ("name" :> "Hall")
    @@ ("geometry" :> [location |-> [lat |-> PointA[1], lng |-> PointA[2]]])
    @@ ("rating" :> Num(44)) @@ ("user_ratings_total" :> Num(1913))
RawArch ==
    ("name" :> "Arch")
    @@ ("geometry" :> [location |-> [lat |-> PointC[1], lng |-> PointC[2]]])
    @@ ("rating" :> Num(48)) @@ ("user_ratings_total" :> Num(1513))

\* the answers of the places search; the pair of close scores is answered
\* to the requests that give neither min_rating nor max_distance
PlacesAnswers(data) ==
    {[kind |-> "error", results |-> <<>>], [kind |-> "ok", results |-> <<>>],
     [kind |-> "ok", results |-> <<RawShrine>>],
     [kind |-> "ok", results |-> <<RawKiosk, RawFort>>],
     [kind |-> "ok", results |-> <<RawShrine, RawRuin>>]}
    \cup (IF "min_rating" \in DOMAIN data \/ "max_distance" \in DOMAIN data THEN {}
          ELSE {[kind |-> "ok", results |-> <<RawHall, RawArch>>]})

OsmTrail == [tags |-> [name |-> "Hill Trail"], lat |-> PointA[1], lon |-> PointA[2]]
OsmSummit == [tags |-> [name |-> "Summit"], lat |-> PointB[1], lon |-> PointB[2]]

OsmAnswers ==
    {[kind |-> "error", elements |-> <<>>], [kind |-> "ok", elements |-> <<>>],
     [kind |-> "ok", elements |-> <<OsmTrail>>],
     [kind |-> "ok", elements |-> <<OsmTrail, OsmSummit>>]}

DetailAnswers ==
    {[kind |-> "error", candidates |-> <<>>], [kind |-> "ok", candidates |-> <<>>],
     [kind |-> "ok", candidates |->
        <<[name |-> "Summit Park", rating |-> Num(46),
           user_ratings_total |-> Num(300), formatted_address |-> "1 Hill Road"]>>]}

WikiAnswers == {"ok", "error"}

TravelAnswers ==
    {[kind |-> "ok", seconds |-> 45],
     [kind |-> "not_ok", seconds |-> 0],
     [kind |-> "error", seconds |-> 0]}

WeatherAnswers == {"ok", "error"}

\* eight three-hour samples on two dates
ForecastSeries ==
    [i \in 1..8 |->
        [dt_txt |-> <<IF i <= 3 THEN 1 ELSE 2, (3 * i + 12) % 24>>,
         temp |-> 101 + 2 * (i % 3),
         desc |-> IF i \in {2, 5, 6} THEN "light rain" ELSE "clear sky"]]

ForecastAnswers ==
    {[kind |-> "error", list |-> <<>>], [kind |-> "ok", list |-> ForecastSeries]}

UpstreamEvent(i) ==
    [name |-> [text |-> "Concert"], start |-> [local |-> 20 + i], url |-> "https://e"]

\* an event without a url
UpstreamDraft == [name |-> [text |-> "Draft"], start |-> [local |-> 20]]

EventsAnswers ==
    {[kind |-> "error", events |-> <<>>], [kind |-> "ok", events |-> <<>>],
     [kind |-> "ok", events |-> [i \in 1..6 |-> UpstreamEvent(i)]],
     [kind |-> "ok", events |-> <<UpstreamEvent(1), UpstreamDraft>>]}

\* the calendar months of the model: one inside the October-March window, one
\* outside it
Months == {1, 7}

-----------------------------------------------------------------------------
(* POST /recommend: the handler *)

Answer(status, error, keys) == [status |-> status, error |-> error, keys |-> keys]

Init ==
    /\ pc = "start"
    /\ body \in Bodies
    /\ pref_list = <<>>
    /\ pref_idx = 1
    /\ user_location = NoLocation
    /\ max_distance = None
    /\ all_destinations = <<>>
    /\ weather = <<>>
    /\ forecast = <<>>
    /\ events = <<>>
    /\ response = NoResponse
    /\ calls = {}
    /\ fin = <<>>
    /\ fout = <<>>

\* lines 514-535 on the body's data, md being the outcome of lines 522-526.
\* An exception that nothing catches is answered 500.
ParsedBody(data, md) ==
    IF ~body.present \/ DOMAIN data = {}
    THEN /\ response' = Answer(400, "Missing JSON body", {"error"})
         /\ pc' = "done"
         /\ UNCHANGED <<max_distance, pref_list>>
    ELSE IF md.exc # ""
    THEN /\ response' = Answer(500, md.exc, {})
         /\ pc' = "done"
         /\ UNCHANGED <<max_distance, pref_list>>
    ELSE IF ~BodyComplete(data)
    THEN /\ response' = Answer(400, "Provide 'city' and 'preferences'.",
                               {"error"})
         /\ pc' = "done"
         /\ max_distance' = md.val
         /\ UNCHANGED pref_list
    ELSE /\ pref_list' = NormalizePreferences(data["preferences"])
         /\ max_distance' = md.val
         /\ pc' = "geocode"
         /\ UNCHANGED response

\* lines 514-535
ParseBody ==
    /\ pc = "start"
    /\ ParsedBody(body.data, ParseMaxDistance(body.data))
    /\ UNCHANGED <<body, pref_idx, user_location, all_destinations, weather,
                   forecast, events, calls, fin, fout>>

\* Geocode without the return of line 540
GeocodeWithoutReturn ==
    /\ pc = "geocode"
    /\ \E answer \in GeocodeAnswers :
          LET loc == get_coordinates_from_city(answer)
          IN  /\ user_location' = loc
              /\ response' = IF loc = NoLocation
                             THEN Answer(400, "Invalid city name or location not found.",
                                         {"error"})
                             ELSE response
    /\ pc' = IF Len(pref_list) = 0 THEN "merge" ELSE "fetch"
    /\ calls' = calls \cup {"geocode"}
    /\ UNCHANGED <<body, pref_list, pref_idx, max_distance, all_destinations,
                   weather, forecast, events, fin, fout>>

\* lines 538-540
Geocode ==
    /\ pc = "geocode"
    /\ \E answer \in GeocodeAnswers :
          LET loc == get_coordinates_from_city(answer)
          IN  /\ user_location' = loc
              /\ IF loc = NoLocation
                 THEN /\ response' = Answer(400,
                            "Invalid city name or location not found.", {"error"})
                      /\ pc' = "done"
                 ELSE /\ pc' = IF Len(pref_list) = 0 THEN "merge" ELSE "fetch"
                      /\ UNCHANGED response
    /\ calls' = calls \cup {"geocode"}
    /\ UNCHANGED <<body, pref_list, pref_idx, max_distance, all_destinations,
                   weather, forecast, events, fin, fout>>

\* lines 549-554 for one trek
TrekRecord(trek, detail, wiki) ==
    LET updated == get_trek_details_google(trek["name"], detail) @@ trek
    IN  ("category" :> "trekking")
        @@ ("best_season" :> get_best_season_for_category("trekking"))
        @@ ("description" :> get_wikipedia_description(wiki))
        @@ ("travel_time" :> S_NA)
        @@ updated

\* lines 562-570 for one place
PlaceWithTravel(place, pref, travel, wiki) ==
    ("travel_time" :> get_travel_time(travel))
    @@ ("best_season" :> get_best_season_for_category(pref))
    @@ ("description" :> get_wikipedia_description(wiki))
    @@ place

AfterPreference ==
    /\ pref_idx' = pref_idx + 1
    /\ pc' = IF pref_idx = Len(pref_list) THEN "merge" ELSE "fetch"

\* lines 545-555: one round of the loop for the preference "trekking"
FetchTreks ==
    /\ pc = "fetch"
    /\ pref_list[pref_idx] = "trekking"
    /\ \E answer \in OsmAnswers :
          LET treks == get_trekking_spots_osm(answer)
          IN  \E detail \in [1..Len(treks) -> DetailAnswers],
                 wiki \in [1..Len(treks) -> WikiAnswers] :
                 all_destinations' = all_destinations \o
                     [i \in 1..Len(treks) |-> TrekRecord(treks[i], detail[i], wiki[i])]
    /\ calls' = calls \cup {"trekking", "trek_detail", "description"}
    /\ AfterPreference
    /\ UNCHANGED <<body, pref_list, user_location, max_distance, weather,
                   forecast, events, response, fin, fout>>

\* lines 558-571 on the places line 557 keeps
AddPlaces(places) ==
    /\ \E travel \in [1..Len(places) -> TravelAnswers],
          wiki \in [1..Len(places) -> WikiAnswers] :
          all_destinations' = all_destinations \o
              [i \in 1..Len(places) |->
                  PlaceWithTravel(places[i], pref_list[pref_idx],
                                  travel[i], wiki[i])]
    /\ calls' = calls \cup {"places"}
          \cup (IF Len(places) > 0 THEN {"travel_time", "description"} ELSE {})

\* lines 557-571: one round of the loop for another preference
FetchPlaces ==
    /\ pc = "fetch"
    /\ pref_list[pref_idx] # "trekking"
    /\ \E answer \in PlacesAnswers(body.data) :
          AddPlaces(SelectSeq(get_nearby_places(pref_list[pref_idx], answer),
                              HasCoordinates))
    /\ AfterPreference
    /\ UNCHANGED <<body, pref_list, user_location, max_distance, weather,
                   forecast, events, response, fin, fout>>

\* line 574 on the outcome of the call
Merged(merged) ==
    IF merged.exc # ""
    THEN /\ response' = Answer(500, merged.exc, {})
         /\ pc' = "done"
         /\ UNCHANGED all_destinations
    ELSE /\ all_destinations' = merged.val
         /\ pc' = "filter"
         /\ UNCHANGED response

\* line 574
Merge ==
    /\ pc = "merge"
    /\ Merged(merge_duplicate_places(all_destinations))
    /\ UNCHANGED <<body, pref_list, pref_idx, user_location, max_distance,
                   weather, forecast, events, calls, fin, fout>>

\* lines 577-578
DistanceFilter ==
    /\ pc = "filter"
    /\ all_destinations' =
          IF Truthy(max_distance)
          THEN filter_by_distance(all_destinations, user_location, max_distance)
          ELSE all_destinations
    /\ pc' = "rank"
    /\ UNCHANGED <<body, pref_list, pref_idx, user_location, max_distance,
                   weather, forecast, events, response, calls, fin, fout>>

\* lines 581-589
Rank ==
    /\ pc = "rank"
    /\ all_destinations' =
          RankStep(all_destinations, Get(body.data, "sort_by", Str(S_score)),
                   pref_list)
    /\ pc' = "min_rating"
    /\ UNCHANGED <<body, pref_list, pref_idx, user_location, max_distance,
                   weather, forecast, events, response, calls, fin, fout>>

\* lines 592-604
MinRating ==
    /\ pc = "min_rating"
    /\ all_destinations' =
          MinRatingFilter(all_destinations, ParseMinRating(body.data))
    /\ pc' = "seasonal"
    /\ UNCHANGED <<body, pref_list, pref_idx, user_location, max_distance,
                   weather, forecast, events, response, calls, fin, fout>>

\* line 607
Seasonal ==
    /\ pc = "seasonal"
    /\ \E m \in Months :
          all_destinations' = add_seasonal_disclaimer(all_destinations, m)
    /\ pc' = "weather"
    /\ UNCHANGED <<body, pref_list, pref_idx, user_location, max_distance,
                   weather, forecast, events, response, calls, fin, fout>>

\* line 610
Weather ==
    /\ pc = "weather"
    /\ \E answer \in WeatherAnswers : weather' = get_weather_info(answer)
    /\ calls' = calls \cup {"weather"}
    /\ pc' = "forecast"
    /\ UNCHANGED <<body, pref_list, pref_idx, user_location, max_distance,
                   all_destinations, forecast, events, response, fin, fout>>

\* line 611
Forecast ==
    /\ pc = "forecast"
    /\ \E answer \in ForecastAnswers :
          forecast' \in get_weather_forecast(answer, ForecastDays)
    /\ calls' = calls \cup {"forecast"}
    /\ pc' = "events"
    /\ UNCHANGED <<body, pref_list, pref_idx, user_location, max_distance,
                   all_destinations, weather, events, response, fin, fout>>

\* line 612
Events ==
    /\ pc = "events"
    /\ \E answer \in EventsAnswers : events' = get_upcoming_events(answer)
    /\ calls' = calls \cup {"events"}
    /\ pc' = "respond"
    /\ UNCHANGED <<body, pref_list, pref_idx, user_location, max_distance,
                   all_destinations, weather, forecast, response, fin, fout>>

\* lines 614-619
Respond ==
    /\ pc = "respond"
    /\ response' = Answer(200, "",
                          {"weather", "weather_forecast", "destinations", "events"})
    /\ pc' = "done"
    /\ UNCHANGED <<body, pref_list, pref_idx, user_location, max_distance,
                   all_destinations, weather, forecast, events, calls, fin, fout>>

Next ==
    \/ ParseBody
    \/ Geocode
    \/ FetchTreks
    \/ FetchPlaces
    \/ Merge
    \/ DistanceFilter
    \/ Rank
    \/ MinRating
    \/ Seasonal
    \/ Weather
    \/ Forecast
    \/ Events
    \/ Respond

Spec == Init /\ [][Next]_vars

-----------------------------------------------------------------------------
(* Properties of POST /recommend *)

ResponseKeys == {"weather", "weather_forecast", "destinations", "events"}

\* C1: a request with a valid city and preferences whose geocoding succeeds
\* ends in a 200 response with weather, weather_forecast, destinations and
\* events, whatever the other adapters answer
C1_AdapterFailuresNeverAbort ==
    (pc = "done" /\ user_location # NoLocation) =>
        /\ response.status = 200
        /\ response.keys = ResponseKeys

\* C2: no JSON body is answered 400 "Missing JSON body"; a body without city
\* or without preferences is answered 400 "Provide 'city' and
\* 'preferences'.", whatever its other fields, and no adapter is called
C2_MissingFieldsAnswered400 ==
    pc = "done" =>
        /\ ~body.present => response = Answer(400, "Missing JSON body", {"error"})
        /\ (body.present /\ ("city" \notin DOMAIN body.data
                             \/ "preferences" \notin DOMAIN body.data)) =>
              /\ response = Answer(400, "Provide 'city' and 'preferences'.", {"error"})
              /\ calls = {}

\* C3: once the geocoder has failed, the request is answered 400 "Invalid
\* city name or location not found." and no other adapter is ever called
C3_GeocodeFailureAborts ==
    ("geocode" \in calls /\ user_location = NoLocation) =>
        /\ pc = "done"
        /\ response = Answer(400, "Invalid city name or location not found.",
                             {"error"})
        /\ calls = {"geocode"}

C3_Witness ==
    /\ pc = "done"
    /\ "geocode" \in calls
    /\ user_location = NoLocation
    /\ response.status = 400
    /\ Len(pref_list) > 0

\* a max_distance that is neither a number nor a numeric text (a text
\* that float() reads as a number)
NonNumeric(v) ==
    \/ v.t \in {"list", "dict", "bool"}
    \/ v.t = "str" /\ ParseFloat(v.s).exc # ""

\* C4: a non-numeric max_distance never raises and is taken as no distance
\* filter (the state after lines 522-529, before any adapter is called)
C4_NonNumericMaxDistanceIgnored ==
    (/\ pc # "start"
     /\ calls = {}
     /\ "max_distance" \in DOMAIN body.data
     /\ NonNumeric(body.data["max_distance"])) =>
        /\ response.status # 500
        /\ max_distance = None

\* C9: every destination of a 200 response has a name, a category and a
\* score, in both sort modes (sort_by = "score" and sort_by = "rating"),
\* sentinel records included
C9_DestinationsNamedAndScored ==
    (pc = "done" /\ response.status = 200) =>
        \A i \in 1..Len(all_destinations) :
            {"name", "category", "score"} \subseteq DOMAIN all_destinations[i]

-----------------------------------------------------------------------------
(* recommend(), lines 580-604: the ranking step and the min_rating filter   *)

S_45 == <<"4", ".", "5">>

\* ratings of the records: none, numbers, the text of a trek without details
MinRatingRatings == Opt({Num(40), Num(45), Num(46), Str(S_Unknown)})

\* texts float() accepts: with blanks around (a space before and a vertical
\* tab after), a sign, a second decimal, no digit after the point, an
\* exponent
S_45padded ==
    <<" ", "4", ".", "5",
      "">>
S_minus1 == <<"-", "1">>
S_455 == <<"4", ".", "5", "5">>
S_5dot == <<"5", ".">>
S_1e1 == <<"1", "e", "1">>
S_inf == <<"i", "n", "f">>

\* min_rating in the body: none, numbers, texts float() accepts (the last
\* two as no number, nan, and as infinity), a text float() refuses, null, a
\* list, and true (float(True) is 1.0)
MinRatingValues ==
    Opt({Num(0), Num(45), Str(S_45), Str(S_45padded), Str(S_minus1), Str(S_455),
         Str(S_5dot), Str(S_1e1), Str(S_nan), Str(S_inf), Str(S_abc), None,
         List(1), Bool(TRUE)})

MinRatingPlace(i, r) ==
    ("name" :> NameOf[i]) @@ ("category" :> "temple")
    @@ ("travel_time" :> FormatMins(600))
    @@ (IF r = Absent THEN <<>> ELSE ("rating" :> r[1]))

MinRatingInputs ==
    {[destinations |-> [i \in 1..Len(rs) |-> MinRatingPlace(i, rs[i])],
      sort_by |-> sb,
      data |-> Present(<<"min_rating">>, <<mr>>)] :
        rs \in SeqsUpTo(MinRatingRatings, MaxPlaces),
        sb \in {Str(S_score), Str(S_rating)},
        mr \in MinRatingValues}

InitMinRating ==
    /\ RequestIdle
    /\ pc = "ready"
    /\ fin \in MinRatingInputs
    /\ fout = <<>>

\* lines 597-604 on ranked_destinations
RankedAndFiltered(ranked, min_rating) ==
    [ranked |-> ranked, filtered |-> MinRatingFilter(ranked, min_rating)]

\* lines 580-604: ranked_destinations, then filtered_destinations
RunMinRating ==
    /\ pc = "ready"
    /\ fout' = RankedAndFiltered(RankStep(fin.destinations, fin.sort_by,
                                          RankPreferences),
                                 ParseMinRating(fin.data))
    /\ pc' = "done"
    /\ UNCHANGED <<fin, reqVars>>

SpecMinRating == InitMinRating /\ [][RunMinRating]_vars

\* the rating the claim compares, in tenths: a missing or non-numeric rating
\* counts as 0
ClaimedDestRating(dest) ==
    IF HasNumericRating(dest) THEN dest["rating"].n ELSE 0

\* the threshold the claim names, in hundredths: the number given, as a
\* number or written as a text (true is the number 1 to float()), 0 when
\* min_rating is missing or not parseable
ClaimedMinRating(data) ==
    IF "min_rating" \notin DOMAIN data THEN 0
    ELSE LET v == data["min_rating"]
         IN  CASE v.t = "num" -> 10 * v.n
               [] v.t = "bool" -> 100 * v.n
               [] v \in {Str(S_45), Str(S_45padded)} -> 450
               [] v = Str(S_minus1) -> -100
               [] v = Str(S_455) -> 455
               [] v = Str(S_5dot) -> 500
               [] v = Str(S_1e1) -> 1000
               [] v \in {Str(S_abc), None, List(1)} -> 0

\* min_rating is the text "nan" or "inf": parsed, and no rating is >= to it
ClaimedAboveEveryRating(data) ==
    "min_rating" \in DOMAIN data /\ data["min_rating"] \in {Str(S_nan), Str(S_inf)}

\* position in the ranked list of the record named as out
RankedPos(out) ==
    CHOOSE i \in 1..Len(fout.ranked) : fout.ranked[i]["name"] = out["name"]

\* C11: the min_rating filter acts on the ranked list and is inclusive: its
\* result is exactly the ranked records whose rating (missing or non-numeric
\* as 0) is >= min_rating, in ranked order; a missing or unparseable
\* min_rating counts as 0 and then nothing is removed
C11_MinRatingInclusiveAfterRanking ==
    pc = "done" =>
        LET ranked == fout.ranked
            filtered == fout.filtered
            kept == IF ClaimedAboveEveryRating(fin.data) THEN {}
                    ELSE {i \in 1..Len(ranked) :
                            10 * ClaimedDestRating(ranked[i]) >= ClaimedMinRating(fin.data)}
        IN  /\ Len(filtered) = Cardinality(kept)
            /\ \A j \in 1..Len(filtered) :
                  /\ RankedPos(filtered[j]) \in kept
                  /\ filtered[j] = ranked[RankedPos(filtered[j])]
            /\ \A j, k \in 1..Len(filtered) :
                  j < k => RankedPos(filtered[j]) < RankedPos(filtered[k])
            /\ ("min_rating" \notin DOMAIN fin.data
                \/ fin.data["min_rating"] \in {Str(S_abc), None, List(1)})
                  => filtered = ranked

\* min_rating "4.5" in score mode: of three records rated 4.0, "Unknown" and
\* 4.5 (ranked 4.5, 4.0, "Unknown") only the one rated exactly 4.5 is left
C11_Witness ==
    /\ pc = "done"
    /\ fin.data = ("min_rating" :> Str(S_45))
    /\ fin.sort_by = Str(S_score)
    /\ Len(fin.destinations) = 3
    /\ Get(fin.destinations[1], "rating", None) = Num(40)
    /\ Get(fin.destinations[2], "rating", None) = Str(S_Unknown)
    /\ Get(fin.destinations[3], "rating", None) = Num(45)
    /\ fout.ranked[1]["name"] = "p3"
    /\ Len(fout.filtered) = 1
    /\ fout.filtered[1]["name"] = "p3"

-----------------------------------------------------------------------------
(* recommend(): the preference bonus in score mode *)

ScoreModeAsked == Get(body.data, "sort_by", Str(S_score)) # Str(S_rating)

\* the orders of n records
Orders(n) ==
    {f \in [1..n -> 1..n] : \A i, j \in 1..n : i # j => f[i] # f[j]}

ClaimedBonusScore(d) == FloatAdd(ClaimedBaseScore(d), Fin(1, 0))

\* every record at the ranking step has its category in the normalized
\* preference list, and the step gives every record the base score plus 1.0
\* and puts the records in an order that is stable descending by key
BonusOnEveryRecord(key(_)) ==
    (pc = "rank" /\ ScoreModeAsked) =>
        LET n == Len(all_destinations)
            bonus == SubSeq([i \in 1..n |-> ClaimedBonusScore(all_destinations[i])],
                            1, n)
            keys == SubSeq([i \in 1..n |-> key(all_destinations[i])], 1, n)
        IN  /\ \A i \in 1..n :
                  /\ "category" \in DOMAIN all_destinations[i]
                  /\ \E k \in 1..Len(pref_list) :
                        pref_list[k] = all_destinations[i]["category"]
            /\ Len(all_destinations') = n
            /\ \E f \in Orders(n) :
                  /\ \A j \in 1..n :
                        all_destinations'[j] =
                            ("score" :> bonus[f[j]]) @@ all_destinations[f[j]]
                  /\ \A j, k \in 1..n : j < k =>
                        \/ FloatGT(keys[f[j]], keys[f[k]])
                        \/ FloatEQ(keys[f[j]], keys[f[k]]) /\ f[j] < f[k]

\* C12 as stated: in score mode every record that reaches the ranking step
\* has its category in the normalized preference list, every score is the
\* base score plus the bonus of 1.0, and the ranked order is the stable
\* descending order by the base score alone
C12_OrderByBaseScore ==
    [][BonusOnEveryRecord(ClaimedBaseScore)]_vars

\* C12: in score mode every record that reaches the ranking step has its
\* category in the normalized preference list, every score is the base
\* score plus the bonus of 1.0, and the ranked order is the stable
\* descending order by the score with the bonus: two base scores one
\* rounding step apart can give the same sum, and such records stay in
\* input order
C12_BonusOnEveryRecord ==
    [][BonusOnEveryRecord(ClaimedBonusScore)]_vars

\* after the ranking step in score mode: two places of the preference
\* "temple", the first with the lower base score, left in input order
\* because the bonus makes their scores equal
C12_Witness ==
    /\ pc = "min_rating"
    /\ ScoreModeAsked
    /\ pref_list = <<"temple">>
    /\ Len(all_destinations) = 2
    /\ all_destinations[1]["name"] = "Hall"
    /\ all_destinations[2]["name"] = "Arch"
    /\ all_destinations[1]["category"] = "temple"
    /\ all_destinations[2]["category"] = "temple"
    /\ FloatLT(ClaimedBaseScore(all_destinations[1]), ClaimedBaseScore(all_destinations[2]))
    /\ all_destinations[1]["score"] = ClaimedBonusScore(all_destinations[1])
    /\ all_destinations[2]["score"] = all_destinations[1]["score"]

-----------------------------------------------------------------------------
(* recommend(): a max_distance of zero *)

\* max_distance of the body is zero: 0, 0.0 or "0"
ZeroMaxDistance ==
    /\ "max_distance" \in DOMAIN body.data
    /\ body.data["max_distance"] \in {Num(0), Str(<<"0">>)}

\* max_distance of the body is a number, or a numeric text, other than zero
NonZeroNumericMaxDistance ==
    /\ "max_distance" \in DOMAIN body.data
    /\ ~NonNumeric(body.data["max_distance"])
    /\ ~ZeroMaxDistance

\* C13: with a max_distance of zero (0, 0.0 or "0") the distance filter
\* step leaves the destinations as they are when max_distance is absent:
\* nothing is removed and nothing gets distance_km; the filter changes the
\* destinations only for a non-zero numeric max_distance
C13_ZeroMaxDistanceNoFilter ==
    [][pc = "filter" =>
          /\ (ZeroMaxDistance \/ "max_distance" \notin DOMAIN body.data)
                => all_destinations' = all_destinations
          /\ all_destinations' # all_destinations => NonZeroNumericMaxDistance
      ]_vars

=============================================================================
